---- MODULE Spec2Model ----
(***************************************************************************)
(* The bounded stream JSON reconstructor of SubprocessCLITransport         *)
(* (src/src/transport/subprocess_cli.rs): process_line and                 *)
(* try_parse_json_buffer over json_buffer, under SafetyLimits              *)
(* (src/src/config.rs).                                                    *)
(*                                                                         *)
(* Text is a sequence of lexical units.  A unit is one byte ("{", "}",     *)
(* "[", "]", " " and the line feed) or the five bytes of the object member *)
(* "k":1, written "m".  Lengths are byte lengths.                          *)
(*                                                                         *)
(* receive_messages is the generator over the lines of the subprocess: it  *)
(* runs from one yield to the next when its consumer polls it, and stops   *)
(* where it is when the consumer drops it.                                 *)
(*                                                                         *)
(* process_query (src/src/client.rs) spawns the task that reads that       *)
(* stream and sends each message to its consumer over a bounded channel.   *)
(* The presets and checks of SafetyLimits, safe_log_preview and the        *)
(* Display of CLIJSONDecodeError (src/src/errors.rs) are pure functions,   *)
(* applied to inputs drawn from bounded sets.                              *)
(***************************************************************************)
EXTENDS Integers, Sequences, FiniteSets, TLC

VARIABLES json_buffer, safety_limits, calls, pc, yielded, channel, process

vars ==
    <<json_buffer, safety_limits, calls, pc, yielded, channel, process>>

\* ------------------------------------------------------------------ bounds

\* Calls of process_line / try_parse_json_buffer in one behaviour.
MaxCalls == 3
\* Units read from the subprocess in one behaviour, all lines together, the
\* line feed that ends each line included.
MaxUnits == 6
\* Units read by receive_messages in one behaviour, line feeds included.
MaxStreamUnits == 6
\* Units fed to process_line in one behaviour of the advisories.
MaxAdvisoryUnits == 6
\* Calls on a SafetyLimits value, and of process_line under it, in one
\* behaviour of the configuration.
MaxConfigCalls == 2
\* The greatest value of the fields of a SafetyLimits written out as a
\* literal; the least is 0.
MaxConfigLimit == 2
\* Units of a line fed to process_line under such limits.
MaxConfigLine == 3
\* Messages the reading task of process_query sends in one behaviour: more
\* than the channel holds.
MaxMessages == 102
\* Records of the stream that parse_message turns into no message.
MaxSkipped == 1
\* Calls of connect, disconnect, is_connected and receive_messages on one
\* transport in one behaviour.
MaxTransportCalls == 4
\* Items the task of process_query takes from the stream of the transport
\* in one behaviour, the end of the stream not counted.
MaxItems == 3
\* Calls of safe_log_preview and of the Display of CLIJSONDecodeError in
\* one behaviour.
MaxFormatCalls == 2
\* Characters of a text given to safe_log_preview.
MaxPreviewText == 3
\* Characters of a stored line that follow its run of ASCII bytes.
MaxDisplayTail == 3

\* ------------------------------------------------------------------- text

LF == "\n"
Member == "m"
\* The member "message":{"content":[{"text":"ab"}]}, a text block of two
\* bytes.
TextMember == "t"
Chars == {"{", "}", "[", "]", Member, " "}
\* The units of the lines receive_messages reads.
StreamChars == {"{", "}", "[", Member}

\* One character that UTF-8 encodes in two bytes, such as U+00E9.
Wide == "W"

\* The bytes of a unit: the member "k":1 is five bytes long, the member
\* with the text block thirty-seven, the wide character two.
ByteLen(c) ==
    IF c = Member THEN 5
    ELSE IF c = TextMember THEN 37
    ELSE IF c = Wide THEN 2
    ELSE 1

RECURSIVE len(_)
\* str::len / String::len: the length in bytes.
len(s) == IF s = <<>> THEN 0 ELSE ByteLen(Head(s)) + len(Tail(s))

\* char::is_whitespace on the units of the model.
is_whitespace(c) == c \in {" ", LF}

RECURSIVE trim_start(_)
trim_start(s) ==
    IF s # <<>> /\ is_whitespace(Head(s)) THEN trim_start(Tail(s)) ELSE s

RECURSIVE trim_end(_)
trim_end(s) ==
    IF s # <<>> /\ is_whitespace(s[Len(s)])
    THEN trim_end(SubSeq(s, 1, Len(s) - 1))
    ELSE s

\* trim left out: the line is used as received.
trim_skipped(s) == s

\* str::trim: leading and trailing whitespace removed.
trim(s) == trim_end(trim_start(s))

starts_with(s, c) == s # <<>> /\ Head(s) = c

\* ------------------------------------------------------------ serde_json

RECURSIVE parse_whitespace(_, _)
\* The first index at or after i that holds no JSON whitespace.
parse_whitespace(s, i) ==
    IF i <= Len(s) /\ s[i] \in {" ", LF} THEN parse_whitespace(s, i + 1) ELSE i

NoRecord == [ok |-> FALSE]
Record(d) == [ok |-> TRUE, data |-> d]

EmptyMap == [x \in {} |-> 0]
MemberMap == [x \in {"k"} |-> 1]
\* The record of the member with the text block: its text, by the path
\* message.content[].text.
TextMap == [x \in {"message"} |-> [content |-> <<[text |-> <<"a", "b">>]>>]]

\* The lengths of the texts of a record, by the path message.content[].text.
text_sizes(data) ==
    IF "message" \in DOMAIN data
    THEN LET content_arr == data["message"].content IN
         {Len(content_arr[i].text) : i \in DOMAIN content_arr}
    ELSE {}

\* A parser that steps over an opening bracket before the object.
from_str_after_bracket(s) ==
    LET i == parse_whitespace(s, IF s # <<>> /\ s[1] = "[" THEN 2 ELSE 1) IN
    IF i > Len(s) \/ s[i] # "{" THEN NoRecord
    ELSE
      LET j == parse_whitespace(s, i + 1) IN
      IF j > Len(s) THEN NoRecord
      ELSE IF s[j] = "}"
        THEN IF parse_whitespace(s, j + 1) > Len(s)
             THEN Record(EmptyMap) ELSE NoRecord
      ELSE IF s[j] \in {Member, TextMember}
        THEN LET k == parse_whitespace(s, j + 1) IN
             IF k <= Len(s) /\ s[k] = "}"
                /\ parse_whitespace(s, k + 1) > Len(s)
             THEN Record(IF s[j] = Member THEN MemberMap ELSE TextMap)
             ELSE NoRecord
      ELSE NoRecord

\* serde_json::from_str::<HashMap<String, Value>>: optional whitespace, an
\* object, optional whitespace, end of input.  Anything else is an error:
\* a top-level array is an invalid type, text after the object is trailing
\* characters, a missing "}" is an unexpected end of input.
from_str(s) ==
    LET i == parse_whitespace(s, 1) IN
    IF i > Len(s) \/ s[i] # "{" THEN NoRecord
    ELSE
      LET j == parse_whitespace(s, i + 1) IN
      IF j > Len(s) THEN NoRecord
      ELSE IF s[j] = "}"
        THEN IF parse_whitespace(s, j + 1) > Len(s)
             THEN Record(EmptyMap) ELSE NoRecord
      ELSE IF s[j] \in {Member, TextMember}
        THEN LET k == parse_whitespace(s, j + 1) IN
             IF k <= Len(s) /\ s[k] = "}"
                /\ parse_whitespace(s, k + 1) > Len(s)
             THEN Record(IF s[j] = Member THEN MemberMap ELSE TextMap)
             ELSE NoRecord
      ELSE NoRecord

\* ---------------------------------------------------------- SafetyLimits

\* max_line_size of the limits a transport is built with (scaled down).
DefaultMaxLineSize == 8
\* max_line_size of the limits with_safety_limits may install instead.
CustomMaxLineSize == 3
\* max_line_size of the limits the advisories run under: room for an object
\* with the text block.
AdvisoryMaxLineSize == 40

\* max_text_block_size, max_log_preview_chars and json_parse_timeout_ms of
\* every limits of the model (scaled down).
MaxTextBlockSize == 1
MaxLogPreviewChars == 2
JsonParseTimeoutMs == 1

SafetyLimits(n) ==
    [max_line_size |-> n,
     max_text_block_size |-> MaxTextBlockSize,
     max_log_preview_chars |-> MaxLogPreviewChars,
     json_parse_timeout_ms |-> JsonParseTimeoutMs]

\* The comparison off by one: a size of max_line_size + 1 passes.
is_line_size_safe_off_by_one(limits, size) == size <= limits.max_line_size + 1

is_line_size_safe(limits, size) == size <= limits.max_line_size

\* The comparison strict: a block of exactly max_text_block_size fails.
is_text_block_safe_strict(limits, size) == size < limits.max_text_block_size

is_text_block_safe(limits, size) == size <= limits.max_text_block_size

\* SafetyLimits { .. } written out, every field n.
limits_literal(n) ==
    [max_line_size |-> n,
     max_text_block_size |-> n,
     max_buffer_size |-> n,
     max_log_preview_chars |-> n,
     max_buffered_messages |-> n,
     json_parse_timeout_ms |-> n]

\* impl Default for SafetyLimits.
default ==
    [max_line_size |-> 10 * 1024 * 1024,
     max_text_block_size |-> 5 * 1024 * 1024,
     max_buffer_size |-> 50 * 1024 * 1024,
     max_log_preview_chars |-> 200,
     max_buffered_messages |-> 100,
     json_parse_timeout_ms |-> 5000]

\* new() with every limit left at zero.
new_zeroed == limits_literal(0)

\* SafetyLimits::new.
new == default

\* conservative() with the preview length of generous().
conservative_long_preview ==
    [max_line_size |-> 1024 * 1024,
     max_text_block_size |-> 512 * 1024,
     max_buffer_size |-> 10 * 1024 * 1024,
     max_log_preview_chars |-> 500,
     max_buffered_messages |-> 50,
     json_parse_timeout_ms |-> 2000]

\* SafetyLimits::conservative.
conservative ==
    [max_line_size |-> 1024 * 1024,
     max_text_block_size |-> 512 * 1024,
     max_buffer_size |-> 10 * 1024 * 1024,
     max_log_preview_chars |-> 100,
     max_buffered_messages |-> 50,
     json_parse_timeout_ms |-> 2000]

\* SafetyLimits::generous.
generous ==
    [max_line_size |-> 50 * 1024 * 1024,
     max_text_block_size |-> 25 * 1024 * 1024,
     max_buffer_size |-> 200 * 1024 * 1024,
     max_log_preview_chars |-> 500,
     max_buffered_messages |-> 200,
     json_parse_timeout_ms |-> 10000]

\* The preset constructors by name.
Presets == {"default", "new", "conservative", "generous"}

preset(name) ==
    CASE name = "default" -> default
      [] name = "new" -> new
      [] name = "conservative" -> conservative
      [] name = "generous" -> generous

\* ------------------------------------------------------------- results

None == [kind |-> "None"]
SomeOk(d) == [kind |-> "Ok", data |-> d]
LineTooLarge(a, l) ==
    [kind |-> "Err", error |-> "LineTooLarge", actual |-> a, limit |-> l]

\* ClaudeSDKError::Io: the line source failed to read a line.
IoError == [kind |-> "Err", error |-> "Io"]
\* ClaudeSDKError::CLIJSONDecode(CLIJSONDecodeError::new(line, ..)): the
\* error keeps the line it is given.
CLIJSONDecode(line) == [kind |-> "Err", error |-> "CLIJSONDecode", line |-> line]

\* What a call leaves: the buffer and the value returned.
Outcome(b, r) == [buffer |-> b, result |-> r]

\* ------------------------------------------------------- the reconstructor

\* The parse attempted before the size check.
try_parse_json_buffer_parse_first(buffer, limits) ==
    IF buffer = <<>> THEN Outcome(buffer, None)
    ELSE LET parse_result == from_str(buffer) IN
         IF parse_result.ok
         THEN Outcome(<<>>, SomeOk(parse_result.data))
         ELSE IF ~is_line_size_safe(limits, len(buffer))
           THEN Outcome(<<>>, LineTooLarge(len(buffer), limits.max_line_size))
         ELSE Outcome(buffer, None)

\* A failed parse reported as a fatal decode error.
try_parse_json_buffer_fatal(buffer, limits) ==
    IF buffer = <<>> THEN Outcome(buffer, None)
    ELSE IF ~is_line_size_safe(limits, len(buffer))
      THEN Outcome(<<>>, LineTooLarge(len(buffer), limits.max_line_size))
    ELSE LET parse_result == from_str(buffer) IN
         IF parse_result.ok
         THEN Outcome(<<>>, SomeOk(parse_result.data))
         ELSE Outcome(<<>>, [kind |-> "Err", error |-> "CLIJSONDecode"])

\* A record with a text block over max_text_block_size refused.
try_parse_json_buffer_text_block_fatal(buffer, limits) ==
    IF buffer = <<>> THEN Outcome(buffer, None)
    ELSE IF ~is_line_size_safe(limits, len(buffer))
      THEN Outcome(<<>>, LineTooLarge(len(buffer), limits.max_line_size))
    ELSE LET parse_result == from_str(buffer) IN
         IF ~parse_result.ok THEN Outcome(buffer, None)
         ELSE IF \E size \in text_sizes(parse_result.data) :
                   ~is_text_block_safe(limits, size)
           THEN Outcome(<<>>, [kind |-> "Err", error |-> "TextBlockTooLarge"])
         ELSE Outcome(<<>>, SomeOk(parse_result.data))

\* No size check of the buffer.
try_parse_json_buffer_unchecked(buffer, limits) ==
    IF buffer = <<>> THEN Outcome(buffer, None)
    ELSE LET parse_result == from_str(buffer) IN
         IF parse_result.ok
         THEN Outcome(<<>>, SomeOk(parse_result.data))
         ELSE Outcome(buffer, None)

try_parse_json_buffer(buffer, limits) ==
    IF buffer = <<>> THEN Outcome(buffer, None)
    ELSE IF ~is_line_size_safe(limits, len(buffer))
      THEN Outcome(<<>>, LineTooLarge(len(buffer), limits.max_line_size))
    ELSE LET parse_result == from_str(buffer) IN
         IF parse_result.ok
         THEN Outcome(<<>>, SomeOk(parse_result.data))
         ELSE Outcome(buffer, None)

\* The warnings try_parse_json_buffer logs: a parse that took longer than
\* json_parse_timeout_ms, a parsed text block over max_text_block_size.
try_parse_warnings(buffer, limits, parse_duration) ==
    IF buffer = <<>> \/ ~is_line_size_safe(limits, len(buffer)) THEN {}
    ELSE LET parse_result == from_str(buffer) IN
         (IF parse_duration > limits.json_parse_timeout_ms
          THEN {"slow_parse"} ELSE {})
         \cup
         (IF /\ parse_result.ok
             /\ \E size \in text_sizes(parse_result.data) :
                  ~is_text_block_safe(limits, size)
          THEN {"large_text_block"} ELSE {})

looks_like_json_start(line) == starts_with(line, "{") \/ starts_with(line, "[")

\* The non-JSON branch tested before the continuation branch.
accumulate_skip_first(buffer, line) ==
    IF ~looks_like_json_start(line)
      THEN [skip |-> TRUE, buffer |-> buffer]
    ELSE IF buffer = <<>>
      THEN [skip |-> FALSE, buffer |-> line]
    ELSE [skip |-> FALSE, buffer |-> buffer \o <<LF>> \o line]

\* Any line starts a buffer when the buffer is empty.
accumulate_start_any(buffer, line) ==
    IF buffer = <<>>
      THEN [skip |-> FALSE, buffer |-> line]
    ELSE [skip |-> FALSE, buffer |-> buffer \o <<LF>> \o line]

\* A line that looks like a start replaces the buffer it should continue.
accumulate_restart(buffer, line) ==
    IF looks_like_json_start(line)
      THEN [skip |-> FALSE, buffer |-> line]
    ELSE IF buffer # <<>>
      THEN [skip |-> FALSE, buffer |-> buffer \o <<LF>> \o line]
    ELSE [skip |-> TRUE, buffer |-> buffer]

\* The branch on the shape of the trimmed line: the buffer to parse next, or
\* skip for a line that is dropped.
accumulate(buffer, line) ==
    LET looks_like_json_continuation == buffer # <<>> IN
    IF looks_like_json_start(line) /\ buffer = <<>>
      THEN [skip |-> FALSE, buffer |-> line]
    ELSE IF looks_like_json_continuation
      THEN [skip |-> FALSE, buffer |-> buffer \o <<LF>> \o line]
    ELSE [skip |-> TRUE, buffer |-> buffer]

\* The shape of the line tested before its size.
process_line_classify_first(buffer, limits, raw) ==
    LET line == trim(raw)
        acc == accumulate(buffer, line)
    IN
    IF line = <<>> \/ acc.skip THEN Outcome(buffer, None)
    ELSE IF ~is_line_size_safe(limits, len(line))
      THEN Outcome(buffer, LineTooLarge(len(line), limits.max_line_size))
    ELSE try_parse_json_buffer(acc.buffer, limits)

\* No size check of the line itself: only the buffer is measured.
process_line_buffer_check_only(buffer, limits, raw) ==
    LET line == trim(raw)
        acc == accumulate(buffer, line)
    IN
    IF line = <<>> \/ acc.skip THEN Outcome(buffer, None)
    ELSE try_parse_json_buffer(acc.buffer, limits)

\* The sizes checked against the limits of the construction, whatever the
\* limits set since.
process_line_default_limits(buffer, limits, raw) ==
    LET line == trim(raw)
        line_size == len(line)
        defaults == SafetyLimits(DefaultMaxLineSize)
    IN
    IF line = <<>> THEN Outcome(buffer, None)
    ELSE IF ~is_line_size_safe(defaults, line_size)
      THEN Outcome(buffer, LineTooLarge(line_size, defaults.max_line_size))
    ELSE LET acc == accumulate(buffer, line) IN
         IF acc.skip THEN Outcome(buffer, None)
         ELSE try_parse_json_buffer(acc.buffer, defaults)

\* The line added to the buffer without a parse attempt.
process_line_append_only(buffer, limits, raw) ==
    LET line == trim(raw)
        acc == accumulate(buffer, line)
    IN
    IF line = <<>> THEN Outcome(buffer, None)
    ELSE IF ~is_line_size_safe(limits, len(line))
      THEN Outcome(buffer, LineTooLarge(len(line), limits.max_line_size))
    ELSE IF acc.skip THEN Outcome(buffer, None)
    ELSE Outcome(acc.buffer, None)

process_line(buffer, limits, raw) ==
    LET line == trim(raw)
        line_size == len(line)
    IN
    IF line = <<>> THEN Outcome(buffer, None)
    ELSE IF ~is_line_size_safe(limits, line_size)
      THEN Outcome(buffer, LineTooLarge(line_size, limits.max_line_size))
    ELSE LET acc == accumulate(buffer, line) IN
         IF acc.skip THEN Outcome(buffer, None)
         ELSE try_parse_json_buffer(acc.buffer, limits)

\* The warnings process_line logs: those of the parse attempt, and a buffer
\* over half of max_line_size that did not parse.
process_line_warnings(buffer, limits, raw, parse_duration) ==
    LET line == trim(raw) IN
    IF line = <<>> \/ ~is_line_size_safe(limits, len(line)) THEN {}
    ELSE LET acc == accumulate(buffer, line) IN
         IF acc.skip THEN {}
         ELSE LET out == try_parse_json_buffer(acc.buffer, limits) IN
              try_parse_warnings(acc.buffer, limits, parse_duration)
              \cup
              (IF /\ out.result = None
                  /\ len(out.buffer) > limits.max_line_size \div 2
               THEN {"buffer_growing"} ELSE {})

\* ------------------------------------------------------------------ state

\* self.process of a transport that holds no subprocess: None.
NoProcess == [some |-> FALSE]

\* A transport driven directly: no process_query, no channel to a consumer.
NoChannel == [queue |-> <<>>, sent |-> 0, received |-> 0, skipped |-> 0,
              open |-> FALSE]

RECURSIVE SeqsUpTo(_, _)
SeqsUpTo(S, n) ==
    IF n = 0 THEN {<<>>}
    ELSE LET shorter == SeqsUpTo(S, n - 1) IN
         shorter \cup {Append(s, c) : s \in shorter, c \in S}

RECURSIVE UnitsFed(_)
\* The units read so far: every line fed to process_line and its line feed.
UnitsFed(h) ==
    IF h = <<>> THEN 0
    ELSE LET c == h[Len(h)] IN
         (IF c.op = "process_line" THEN Len(c.line) + 1 ELSE 0)
           + UnitsFed(SubSeq(h, 1, Len(h) - 1))

Call(op, raw, out) ==
    [op |-> op, line |-> raw, before |-> json_buffer,
     after |-> out.buffer, result |-> out.result]

Init ==
    /\ json_buffer = <<>>
    /\ safety_limits = SafetyLimits(DefaultMaxLineSize)
    /\ calls = <<>>
    /\ pc = "off"
    /\ yielded = <<>>
    /\ channel = NoChannel
    /\ process = NoProcess

WithSafetyLimits ==
    /\ calls = <<>>
    /\ safety_limits = SafetyLimits(DefaultMaxLineSize)
    /\ safety_limits' = SafetyLimits(CustomMaxLineSize)
    /\ UNCHANGED <<json_buffer, calls, pc, yielded, channel, process>>

ProcessLine ==
    /\ pc = "off"
    /\ Len(calls) < MaxCalls
    /\ UnitsFed(calls) < MaxUnits
    /\ \E raw \in SeqsUpTo(Chars, MaxUnits - UnitsFed(calls) - 1) :
         LET out == process_line(json_buffer, safety_limits, raw) IN
         /\ json_buffer' = out.buffer
         /\ calls' = Append(calls, Call("process_line", raw, out))
    /\ UNCHANGED <<safety_limits, pc, yielded, channel, process>>

TryParseJsonBuffer ==
    /\ pc = "off"
    /\ Len(calls) < MaxCalls
    /\ LET out == try_parse_json_buffer(json_buffer, safety_limits) IN
       /\ json_buffer' = out.buffer
       /\ calls' = Append(calls, Call("try_parse_json_buffer", <<>>, out))
    /\ UNCHANGED <<safety_limits, pc, yielded, channel, process>>

Next == WithSafetyLimits \/ ProcessLine \/ TryParseJsonBuffer

Spec == Init /\ [][Next]_vars

\* ------------------------------------------------------------ advisories
\* process_line on lines that may hold a text block, with the time the
\* parse takes: each call also records that time and the warnings logged.

AdvisoryChars == {"{", "}", Member, TextMember}

\* What a parse may take: the timeout exactly, and more.
Durations == {JsonParseTimeoutMs, JsonParseTimeoutMs + 1}

AdvisoryInit ==
    /\ json_buffer = <<>>
    /\ safety_limits = SafetyLimits(AdvisoryMaxLineSize)
    /\ calls = <<>>
    /\ pc = "off"
    /\ yielded = <<>>
    /\ channel = NoChannel
    /\ process = NoProcess

AdvisoryProcessLine ==
    /\ Len(calls) < MaxCalls
    /\ UnitsFed(calls) < MaxAdvisoryUnits
    /\ \E raw \in SeqsUpTo(AdvisoryChars,
                           MaxAdvisoryUnits - UnitsFed(calls) - 1),
          parse_duration \in Durations :
         LET out == process_line(json_buffer, safety_limits, raw)
             logged == process_line_warnings(json_buffer, safety_limits, raw,
                                             parse_duration)
         IN
         /\ json_buffer' = out.buffer
         /\ calls' = Append(calls,
                            [op |-> "process_line", line |-> raw,
                             before |-> json_buffer, after |-> out.buffer,
                             result |-> out.result,
                             parse_duration |-> parse_duration,
                             warnings |-> logged])
    /\ UNCHANGED <<safety_limits, pc, yielded, channel, process>>

AdvisoryNext == AdvisoryProcessLine

SpecAdvisory == AdvisoryInit /\ [][AdvisoryNext]_vars

\* ------------------------------------------------------ receive_messages
\* The generator of receive_messages.  pc is where it stands: "reading" at
\* lines_stream.next(), "yielded" at the yield of a line's result or of a
\* read error, "final" at the yield of the record of the last parse attempt,
\* "malformed" at the yield of the decode error, before json_buffer.clear(),
\* "done" past its end, "dropped" when its consumer has dropped it.  "off" is
\* a transport whose process_line is called directly.

\* The item appended last.
yield_item_front(items, result, n) == <<[item |-> result, by |-> n]>> \o items

\* yield result: the item and the call that produced it.
yield_item(items, result, n) == Append(items, [item |-> result, by |-> n])

\* An error item ends the loop over the lines.
after_line_error_ends(result) ==
    IF result = None THEN "reading"
    ELSE IF result.kind = "Err" THEN "final"
    ELSE "yielded"

\* The loop over the lines: a result is yielded, None goes on reading.
after_line(result) == IF result = None THEN "reading" ELSE "yielded"

\* The buffer dropped at the end without an item.
stream_end_silent(buffer, limits) ==
    [pc |-> "done", buffer |-> <<>>, result |-> None]

\* The end of the lines: one more parse attempt of a buffer that is not
\* empty; its result is yielded, and a decode error when it has none.
stream_end(buffer, limits) ==
    IF buffer # <<>>
    THEN LET out == try_parse_json_buffer(buffer, limits) IN
         IF out.result # None
         THEN [pc |-> "final", buffer |-> out.buffer, result |-> out.result]
         ELSE [pc |-> "malformed", buffer |-> out.buffer,
               result |-> CLIJSONDecode(out.buffer)]
    ELSE [pc |-> "done", buffer |-> buffer, result |-> None]

\* A read error that throws the pending buffer away.
on_read_error_clears(buffer) == Outcome(<<>>, IoError)

\* Err(e) of the line source: the error is the item, the buffer is not
\* touched and the line is not read again.
on_read_error(buffer) == Outcome(buffer, IoError)

\* The generator back in the loop over the lines after the decode error.
resume_rereads(position, buffer) ==
    IF position = "final" THEN [pc |-> "done", buffer |-> buffer]
    ELSE [pc |-> "reading", buffer |-> buffer]

\* The generator polled again where it stood at a yield.
resume(position, buffer) ==
    IF position = "yielded" THEN [pc |-> "reading", buffer |-> buffer]
    ELSE IF position = "final" THEN [pc |-> "done", buffer |-> buffer]
    ELSE [pc |-> "done", buffer |-> <<>>]

StreamInit ==
    /\ json_buffer = <<>>
    /\ safety_limits = SafetyLimits(DefaultMaxLineSize)
    /\ calls = <<>>
    /\ pc = "reading"
    /\ yielded = <<>>
    /\ channel = NoChannel
    /\ process = NoProcess

\* Ok(line) from the line source.
StreamLine ==
    /\ pc = "reading"
    /\ Len(calls) < MaxCalls
    /\ UnitsFed(calls) < MaxStreamUnits
    /\ \E raw \in SeqsUpTo(StreamChars, MaxStreamUnits - UnitsFed(calls) - 1) :
         LET out == process_line(json_buffer, safety_limits, raw) IN
         /\ json_buffer' = out.buffer
         /\ calls' = Append(calls, Call("process_line", raw, out))
         /\ yielded' = IF out.result = None THEN yielded
                       ELSE yield_item(yielded, out.result, Len(calls) + 1)
         /\ pc' = after_line(out.result)
    /\ UNCHANGED <<safety_limits, channel, process>>

\* Err(e) from the line source.
StreamReadError ==
    /\ pc = "reading"
    /\ Len(calls) < MaxCalls
    /\ LET out == on_read_error(json_buffer) IN
       /\ json_buffer' = out.buffer
       /\ calls' = Append(calls, Call("read_error", <<>>, out))
       /\ yielded' = yield_item(yielded, out.result, Len(calls) + 1)
       /\ pc' = after_line(out.result)
    /\ UNCHANGED <<safety_limits, channel, process>>

\* None from the line source: no more lines.
StreamEnd ==
    /\ pc = "reading"
    /\ Len(calls) < MaxCalls
    /\ LET end == stream_end(json_buffer, safety_limits) IN
       /\ json_buffer' = end.buffer
       /\ calls' = Append(calls,
                          Call("end_of_input", <<>>,
                               Outcome(end.buffer, end.result)))
       /\ yielded' = IF end.result = None THEN yielded
                     ELSE yield_item(yielded, end.result, Len(calls) + 1)
       /\ pc' = end.pc
    /\ UNCHANGED <<safety_limits, channel, process>>

\* The consumer polls the stream again after an item.
Poll ==
    /\ pc \in {"yielded", "final", "malformed"}
    /\ LET next == resume(pc, json_buffer) IN
       /\ pc' = next.pc
       /\ json_buffer' = next.buffer
    /\ UNCHANGED <<safety_limits, calls, yielded, channel, process>>

\* The consumer drops the stream: the generator runs no further.
Drop ==
    /\ pc \in {"reading", "yielded", "final", "malformed"}
    /\ pc' = "dropped"
    /\ UNCHANGED <<json_buffer, safety_limits,
                   calls, yielded, channel, process>>

StreamNext ==
    WithSafetyLimits \/ StreamLine \/ StreamReadError \/ StreamEnd
      \/ Poll \/ Drop

SpecStream == StreamInit /\ [][StreamNext]_vars

\* The stream under a consumer that keeps polling it: the loop of
\* process_query takes the next item as long as there is one, so a generator
\* that stands at a yield is always resumed.
StreamLiveNext ==
    WithSafetyLimits \/ StreamLine \/ StreamReadError \/ StreamEnd \/ Poll

SpecStreamLive == StreamInit /\ [][StreamLiveNext]_vars /\ WF_vars(Poll)

\* ----------------------------------------------------------- SafetyLimits
\* A SafetyLimits value, its checks applied to sizes around its limits, and
\* process_line of a transport built with it.

\* The units of the lines fed under literal limits.
ConfigChars == {"{", " "}

\* A call on the limits: its argument and what it returned.
ConfigCall(op, arg, result) ==
    [op |-> op, arg |-> arg, limits |-> safety_limits, result |-> result]

ConfigInit ==
    /\ json_buffer = <<>>
    /\ safety_limits = default
    /\ calls = <<>>
    /\ pc = "off"
    /\ yielded = <<>>
    /\ channel = NoChannel
    /\ process = NoProcess

\* with_safety_limits before any call: a preset, or limits written out.
ConfigWithSafetyLimits ==
    /\ calls = <<>>
    /\ safety_limits = default
    /\ \E limits \in {conservative, generous}
                       \cup {limits_literal(n) : n \in 0..MaxConfigLimit} :
         safety_limits' = limits
    /\ UNCHANGED <<json_buffer, calls, pc, yielded, channel, process>>

\* One of the preset constructors called.
Preset ==
    /\ Len(calls) < MaxConfigCalls
    /\ \E name \in Presets :
         calls' = Append(calls, ConfigCall("preset", name, preset(name)))
    /\ UNCHANGED <<json_buffer, safety_limits, pc, yielded, channel, process>>

\* The sizes next to a limit: one below, the limit, one above.
Around(limit) == {size \in (limit - 1)..(limit + 1) : size >= 0}

IsLineSizeSafe ==
    /\ Len(calls) < MaxConfigCalls
    /\ \E size \in Around(safety_limits.max_line_size) :
         calls' = Append(calls,
                         ConfigCall("is_line_size_safe", size,
                                    is_line_size_safe(safety_limits, size)))
    /\ UNCHANGED <<json_buffer, safety_limits, pc, yielded, channel, process>>

IsTextBlockSafe ==
    /\ Len(calls) < MaxConfigCalls
    /\ \E size \in Around(safety_limits.max_text_block_size) :
         calls' = Append(calls,
                         ConfigCall("is_text_block_safe", size,
                                    is_text_block_safe(safety_limits, size)))
    /\ UNCHANGED <<json_buffer, safety_limits, pc, yielded, channel, process>>

\* process_line of the transport that holds the limits.
ConfigProcessLine ==
    /\ Len(calls) < MaxConfigCalls
    /\ \E raw \in SeqsUpTo(ConfigChars, MaxConfigLine) :
         LET out == process_line(json_buffer, safety_limits, raw) IN
         /\ json_buffer' = out.buffer
         /\ calls' = Append(calls, Call("process_line", raw, out))
    /\ UNCHANGED <<safety_limits, pc, yielded, channel, process>>

ConfigNext ==
    ConfigWithSafetyLimits \/ Preset \/ IsLineSizeSafe \/ IsTextBlockSafe
      \/ ConfigProcessLine

SpecConfig == ConfigInit /\ [][ConfigNext]_vars

\* ------------------------------------------------------------- formatting
\* safe_log_preview of SafetyLimits and the Display of CLIJSONDecodeError.
\* A formatted string is the text it shows and what follows the text: Plain
\* is the text alone, Counted the text followed by "... (total total
\* chars)", Ellipsis the text followed by "...".

Plain(text) == [kind |-> "Ok", shown |-> text, suffix |-> "none"]
Counted(text, total) ==
    [kind |-> "Ok", shown |-> text, suffix |-> "total", total |-> total]
Ellipsis(text) == [kind |-> "Ok", shown |-> text, suffix |-> "ellipsis"]
\* The panic of a string slice whose end is inside a character.
Panic == [kind |-> "Panic"]

\* text.chars().take(n).collect::<String>()
chars_take(text, n) ==
    SubSeq(text, 1, IF n < Len(text) THEN n ELSE Len(text))

safe_log_preview(limits, text) ==
    IF len(text) <= limits.max_log_preview_chars
    THEN Plain(text)
    ELSE Counted(chars_take(text, limits.max_log_preview_chars), len(text))

\* "Failed to decode JSON: " is followed by at most this many bytes of the
\* line.
DisplayLimit == 100

RECURSIVE char_at_byte(_, _, _, _)
\* The characters of s from the k-th on, the ones before them being `before`
\* bytes long: how many characters of s start before byte n, and the bytes
\* they take.
char_at_byte(s, n, k, before) ==
    IF k > Len(s) \/ before >= n
    THEN [chars |-> k - 1, bytes |-> before]
    ELSE char_at_byte(s, n, k + 1, before + ByteLen(s[k]))

\* str::is_char_boundary: no character of s lies across byte n.
is_char_boundary(s, n) == char_at_byte(s, n, 1, 0).bytes = n

\* &s[..n]: the characters within the first n bytes, a panic when byte n is
\* inside a character.
slice_to(s, n) ==
    IF is_char_boundary(s, n)
    THEN [kind |-> "Ok", text |-> SubSeq(s, 1, char_at_byte(s, n, 1, 0).chars)]
    ELSE Panic

\* impl Display for CLIJSONDecodeError, after "Failed to decode JSON: ".
fmt(line) ==
    IF len(line) > DisplayLimit
    THEN LET head == slice_to(line, DisplayLimit) IN
         IF head.kind = "Ok" THEN Ellipsis(head.text) ELSE Panic
    ELSE Plain(line)

\* The characters of the texts formatted: ASCII and wide.
FormatChars == {"a", Wide}

\* n ASCII bytes.
Ascii(n) == [i \in 1..n |-> "a"]

\* The stored lines displayed: short ones, and ones that reach
\* DisplayLimit bytes with ASCII and go on with a few characters.
DisplayLines ==
    {Ascii(n) \o tail :
       n \in {0} \cup ((DisplayLimit - 2)..DisplayLimit),
       tail \in SeqsUpTo(FormatChars, MaxDisplayTail)}

SafeLogPreview ==
    /\ Len(calls) < MaxFormatCalls
    /\ \E text \in SeqsUpTo(FormatChars, MaxPreviewText) :
         calls' = Append(calls,
                         ConfigCall("safe_log_preview", text,
                                    safe_log_preview(safety_limits, text)))
    /\ UNCHANGED <<json_buffer, safety_limits, pc, yielded, channel, process>>

Display ==
    /\ Len(calls) < MaxFormatCalls
    /\ \E line \in DisplayLines :
         calls' = Append(calls, ConfigCall("fmt", line, fmt(line)))
    /\ UNCHANGED <<json_buffer, safety_limits, pc, yielded, channel, process>>

FormatNext == ConfigWithSafetyLimits \/ SafeLogPreview \/ Display

SpecFormat == ConfigInit /\ [][FormatNext]_vars

\* ---------------------------------------------------------- process_query
\* The task process_query spawns reads the stream of the transport and sends
\* each message over a bounded channel to the consumer of the stream it
\* returned.  channel is the queue of the messages sent and not yet received
\* (messages are numbered in the order they are sent), the number of the
\* last message sent and of the last received, the records skipped, and
\* whether the receiver is still there.  pc is where the task stands:
\* "connect", "next" at message_stream.next(), "send" at the send of a
\* message, "send_last" at the send of an error message that ends the task,
\* "ended".

\* tokio::sync::mpsc::channel(100)
ChannelCapacity == 100

\* A send that completes on a full queue and queues one more.
send_unbounded(ch, message) ==
    IF ~ch.open THEN [done |-> TRUE, ok |-> FALSE, queue |-> ch.queue]
    ELSE [done |-> TRUE, ok |-> TRUE, queue |-> Append(ch.queue, message)]

\* A send that completes on a full queue and drops the message.
send_lossy(ch, message) ==
    IF ~ch.open THEN [done |-> TRUE, ok |-> FALSE, queue |-> ch.queue]
    ELSE IF Len(ch.queue) < ChannelCapacity
      THEN [done |-> TRUE, ok |-> TRUE, queue |-> Append(ch.queue, message)]
    ELSE [done |-> TRUE, ok |-> TRUE, queue |-> ch.queue]

\* tx.send(message).await: an error when the receiver is gone, the message
\* queued when there is room, and otherwise not done: the task stays
\* suspended at the send.
send(ch, message) ==
    IF ~ch.open THEN [done |-> TRUE, ok |-> FALSE, queue |-> ch.queue]
    ELSE IF Len(ch.queue) < ChannelCapacity
      THEN [done |-> TRUE, ok |-> TRUE, queue |-> Append(ch.queue, message)]
    ELSE [done |-> FALSE, ok |-> FALSE, queue |-> ch.queue]

\* SubprocessCLITransport::new(prompt, options, None) and channel(100).
QueryInit ==
    /\ json_buffer = <<>>
    /\ safety_limits = default
    /\ calls = <<>>
    /\ pc = "connect"
    /\ yielded = <<>>
    /\ channel = [queue |-> <<>>, sent |-> 0, received |-> 0, skipped |-> 0,
                  open |-> TRUE]
    /\ process = NoProcess

\* transport.connect(): on an error the task sends one error message and
\* returns.
QueryConnect ==
    /\ pc = "connect"
    /\ \E connected \in BOOLEAN :
         pc' = IF connected THEN "next" ELSE "send_last"
    /\ UNCHANGED <<json_buffer, safety_limits,
                   calls, yielded, channel, process>>

\* Ok(data) of the stream that parse_message turns into a message.
QueryMessage ==
    /\ pc = "next"
    /\ channel.sent < MaxMessages
    /\ pc' = "send"
    /\ UNCHANGED <<json_buffer, safety_limits,
                   calls, yielded, channel, process>>

\* Ok(data) of the stream that parse_message turns into None: nothing sent.
QuerySkip ==
    /\ pc = "next"
    /\ channel.skipped < MaxSkipped
    /\ channel' = [channel EXCEPT !.skipped = @ + 1]
    /\ UNCHANGED <<json_buffer, safety_limits, calls, pc, yielded, process>>

\* Err(e) of the stream: one error message is sent and the loop is left.
QueryError ==
    /\ pc = "next"
    /\ channel.sent < MaxMessages
    /\ pc' = "send_last"
    /\ UNCHANGED <<json_buffer, safety_limits,
                   calls, yielded, channel, process>>

\* None of the stream: the task disconnects and ends.
QueryEnd ==
    /\ pc = "next"
    /\ pc' = "ended"
    /\ UNCHANGED <<json_buffer, safety_limits,
                   calls, yielded, channel, process>>

\* The send the task stands at completes.
QuerySend ==
    /\ pc \in {"send", "send_last"}
    /\ LET out == send(channel, channel.sent + 1) IN
       /\ out.done
       /\ channel' = [channel EXCEPT
                        !.queue = out.queue,
                        !.sent = IF out.ok THEN @ + 1 ELSE @]
       /\ pc' = IF pc = "send" /\ out.ok THEN "next" ELSE "ended"
    /\ UNCHANGED <<json_buffer, safety_limits, calls, yielded, process>>

\* The consumer takes the next message of the stream.
Consume ==
    /\ channel.open
    /\ channel.queue # <<>>
    /\ channel' = [channel EXCEPT
                     !.queue = Tail(@),
                     !.received = Head(channel.queue)]
    /\ UNCHANGED <<json_buffer, safety_limits, calls, pc, yielded, process>>

\* The consumer drops the stream, and the messages still queued with it.
ReceiverDrop ==
    /\ channel.open
    /\ channel' = [channel EXCEPT !.queue = <<>>, !.open = FALSE]
    /\ UNCHANGED <<json_buffer, safety_limits, calls, pc, yielded, process>>

QueryNext ==
    QueryConnect \/ QueryMessage \/ QuerySkip \/ QueryError \/ QueryEnd
      \/ QuerySend \/ Consume \/ ReceiverDrop

SpecQuery == QueryInit /\ [][QueryNext]_vars

\* -------------------------------------------------------------- transport
\* connect, disconnect, is_connected and receive_messages of the transport
\* over self.process: None, or the handle of the subprocess with its stdout,
\* which receive_messages takes out of the handle.

Ok == [kind |-> "Ok"]
\* ClaudeSDKError::CLINotFound and ClaudeSDKError::CLIConnection.
CLINotFound == [kind |-> "Err", error |-> "CLINotFound"]
CLIConnection == [kind |-> "Err", error |-> "CLIConnection"]

\* What command.spawn() may give: the subprocess, ErrorKind::NotFound, or
\* another error.
Spawns == {"spawned", "NotFound", "PermissionDenied"}
\* What process.try_wait() may give: Ok(Some(status)), Ok(None), Err.
TryWaits == {"exited", "running", "error"}
\* What process.kill() and process.wait() may give.
Completions == {"ok", "error"}

\* Some(process) as spawned: stdout piped and not yet taken.
Spawned == [some |-> TRUE, stdout |-> TRUE]

\* A connect that spawns although a handle is held.
connect_respawns(handle, spawn) ==
    IF spawn = "spawned"
      THEN [result |-> Ok, process |-> Spawned, spawned |-> TRUE]
    ELSE IF spawn = "NotFound"
      THEN [result |-> CLINotFound, process |-> handle, spawned |-> FALSE]
    ELSE [result |-> CLIConnection, process |-> handle, spawned |-> FALSE]

\* connect: nothing to do when a handle is held; otherwise the spawn, whose
\* error is returned with self.process left as it is.
connect(handle, spawn) ==
    IF handle.some
      THEN [result |-> Ok, process |-> handle, spawned |-> FALSE]
    ELSE IF spawn = "spawned"
      THEN [result |-> Ok, process |-> Spawned, spawned |-> TRUE]
    ELSE IF spawn = "NotFound"
      THEN [result |-> CLINotFound, process |-> handle, spawned |-> FALSE]
    ELSE [result |-> CLIConnection, process |-> handle, spawned |-> FALSE]

\* A disconnect that keeps the handle of a subprocess that had exited.
disconnect_keeps_exited(handle, try_wait, kill, wait) ==
    IF ~handle.some
      THEN [result |-> Ok, process |-> handle,
            killed |-> FALSE, waited |-> FALSE]
    ELSE IF try_wait = "exited"
      THEN [result |-> Ok, process |-> handle,
            killed |-> FALSE, waited |-> FALSE]
    ELSE [result |-> Ok, process |-> NoProcess,
          killed |-> kill = "ok", waited |-> wait = "ok"]

\* disconnect: self.process.take() first; a subprocess that has exited is
\* left alone, any other is killed and waited for, and the errors of kill
\* and wait are logged only.
disconnect(handle, try_wait, kill, wait) ==
    IF ~handle.some
      THEN [result |-> Ok, process |-> handle,
            killed |-> FALSE, waited |-> FALSE]
    ELSE IF try_wait = "exited"
      THEN [result |-> Ok, process |-> NoProcess,
            killed |-> FALSE, waited |-> FALSE]
    ELSE [result |-> Ok, process |-> NoProcess,
          killed |-> kill = "ok", waited |-> wait = "ok"]

is_connected(handle) == handle.some

\* A receive_messages that reads stdout again on every call.
receive_messages_again(handle) ==
    IF handle.some
      THEN [stream |-> "lines", process |-> [handle EXCEPT !.stdout = FALSE]]
    ELSE [stream |-> "empty", process |-> handle]

\* receive_messages: the stream over the lines of stdout when there is a
\* subprocess whose stdout has not been taken, and the empty stream
\* otherwise.
receive_messages(handle) ==
    IF handle.some /\ handle.stdout
      THEN [stream |-> "lines", process |-> [handle EXCEPT !.stdout = FALSE]]
    ELSE [stream |-> "empty", process |-> handle]

\* A call on the transport: its inputs, self.process before it, and what
\* it gave.
TransportCall(op, input, out) ==
    [op |-> op, input |-> input, before |-> process, out |-> out]

TransportInit ==
    /\ json_buffer = <<>>
    /\ safety_limits = default
    /\ calls = <<>>
    /\ pc = "off"
    /\ yielded = <<>>
    /\ channel = NoChannel
    /\ process = NoProcess

Connect ==
    /\ Len(calls) < MaxTransportCalls
    /\ \E spawn \in Spawns :
         LET out == connect(process, spawn) IN
         /\ process' = out.process
         /\ calls' = Append(calls, TransportCall("connect", <<spawn>>, out))
    /\ UNCHANGED <<json_buffer, safety_limits, pc, yielded, channel>>

Disconnect ==
    /\ Len(calls) < MaxTransportCalls
    /\ \E try_wait \in TryWaits, kill \in Completions, wait \in Completions :
         LET out == disconnect(process, try_wait, kill, wait) IN
         /\ process' = out.process
         /\ calls' = Append(calls,
                            TransportCall("disconnect",
                                          <<try_wait, kill, wait>>, out))
    /\ UNCHANGED <<json_buffer, safety_limits, pc, yielded, channel>>

IsConnected ==
    /\ Len(calls) < MaxTransportCalls
    /\ calls' = Append(calls,
                       TransportCall("is_connected", <<>>,
                                     [result |-> is_connected(process),
                                      process |-> process]))
    /\ UNCHANGED <<json_buffer, safety_limits, pc, yielded, channel, process>>

\* receive_messages called and the stream it returned dropped.
ReceiveMessages ==
    /\ Len(calls) < MaxTransportCalls
    /\ LET out == receive_messages(process) IN
       /\ process' = out.process
       /\ calls' = Append(calls, TransportCall("receive_messages", <<>>, out))
    /\ UNCHANGED <<json_buffer, safety_limits, pc, yielded, channel>>

TransportNext == Connect \/ Disconnect \/ IsConnected \/ ReceiveMessages

SpecTransport == TransportInit /\ [][TransportNext]_vars

\* ------------------------------------------------- the task and its consumer
\* process_query with its transport, the records and its consumer.  process
\* is the handle of the transport the task owns and calls the calls on it;
\* yielded is what message_stream.next() has given the task; channel is the
\* queue of the messages sent and not received, the messages sent, the ones
\* the consumer has received, the message the task is sending, whether the
\* receiver (open) and the sender (tx) are still there, and whether the
\* consumer has seen the end of its stream.  pc is where the task stands:
\* "connect", "receive" at transport.receive_messages(), "next" at
\* message_stream.next(), "send", "send_stream_error" and
\* "send_connect_error" at the three sends, "disconnect", "ended", and
\* "panicked" when the task has unwound.

\* A record as parse_message reads it: "type" as a string ("absent" when
\* there is none or it is no string), what message.content is, the blocks
\* of an array content, the other fields of the right type that are there,
\* and what the record carries.
Data(type, content, blocks, has) ==
    [type |-> type, content |-> content, blocks |-> blocks, has |-> has,
     payload |-> 0]
Block(type, has) == [type |-> type, has |-> has]

ResultFields ==
    {"subtype", "duration_ms", "duration_api_ms", "is_error", "num_turns",
     "session_id"}

\* The records of the subprocess the task is given.
RecordShapes ==
    {Data("user", "string", <<>>, {}),
     Data("user", "array", <<>>, {}),
     Data("assistant", "array",
            <<Block("text", {"text"}), Block("image", {"source"})>>, {}),
     Data("assistant", "array",
            <<Block("text", {"text"}), Block("tool_use", {"id", "name"})>>,
            {}),
     Data("system", "absent", <<>>, {"subtype"}),
     Data("system", "absent", <<>>, {}),
     Data("result", "absent", <<>>, ResultFields \cup {"result"}),
     Data("result", "absent", <<>>, ResultFields \ {"session_id"}),
     Data("absent", "string", <<>>, {"subtype"}),
     Data("stream_event", "absent", <<>>, {"subtype"})}

\* The errors of the stream the task is given: a read error, a line over
\* the limit, a decode error with a short line, and decode errors whose line
\* has byte DisplayLimit at the end of a character and inside one.
StreamErrors ==
    {IoError,
     LineTooLarge(DefaultMaxLineSize + 1, DefaultMaxLineSize),
     CLIJSONDecode(<<"{">>),
     CLIJSONDecode(Ascii(DisplayLimit) \o <<Wide>>),
     CLIJSONDecode(Ascii(DisplayLimit - 1) \o <<Wide>>)}

\* None of message_stream.next().
EndOfStream == [kind |-> "End"]

\* Message::User, Assistant, System, Result made of a record.
Typed(type, data, content) ==
    [type |-> type, payload |-> data.payload, content |-> content]

\* The required fields of a content block of a known type.
block_fields(type) ==
    IF type = "text" THEN {"text"}
    ELSE IF type = "tool_use" THEN {"id", "name", "input"}
    ELSE IF type = "tool_result" THEN {"tool_use_id"}
    ELSE {}

RECURSIVE content_blocks(_, _)
\* for block in content_array: None at the first block without a type or
\* without a field its type requires; a block of another type is passed
\* over.
content_blocks(blocks, pushed) ==
    IF blocks = <<>> THEN [kind |-> "Some", blocks |-> pushed]
    ELSE LET block == Head(blocks) IN
         IF block.type = "absent" THEN None
         ELSE IF block.type \in {"text", "tool_use", "tool_result"}
           THEN IF block_fields(block.type) \subseteq block.has
                  THEN content_blocks(Tail(blocks),
                                      Append(pushed, block.type))
                ELSE None
         ELSE content_blocks(Tail(blocks), pushed)

\* A parse_message that makes a result message of a record without all the
\* fields.
parse_message_lenient(data) ==
    IF data.type = "user"
      THEN IF data.content = "string"
             THEN SomeOk(Typed("user", data, <<>>)) ELSE None
    ELSE IF data.type = "assistant"
      THEN IF data.content = "array"
             THEN LET parsed == content_blocks(data.blocks, <<>>) IN
                  IF parsed = None THEN None
                  ELSE SomeOk(Typed("assistant", data, parsed.blocks))
           ELSE None
    ELSE IF data.type = "system"
      THEN IF "subtype" \in data.has
             THEN SomeOk(Typed("system", data, <<>>)) ELSE None
    ELSE IF data.type = "result"
      THEN SomeOk(Typed("result", data, <<>>))
    ELSE None

\* parse_message: Some(message) of a record of a known type with the fields
\* the type requires, None of any other.
parse_message(data) ==
    IF data.type = "user"
      THEN IF data.content = "string"
             THEN SomeOk(Typed("user", data, <<>>)) ELSE None
    ELSE IF data.type = "assistant"
      THEN IF data.content = "array"
             THEN LET parsed == content_blocks(data.blocks, <<>>) IN
                  IF parsed = None THEN None
                  ELSE SomeOk(Typed("assistant", data, parsed.blocks))
           ELSE None
    ELSE IF data.type = "system"
      THEN IF "subtype" \in data.has
             THEN SomeOk(Typed("system", data, <<>>)) ELSE None
    ELSE IF data.type = "result"
      THEN IF ResultFields \subseteq data.has
             THEN SomeOk(Typed("result", data, <<>>)) ELSE None
    ELSE None

\* format!("{}", e) of a ClaudeSDKError: the Display of the decode error
\* for CLIJSONDecode, the name of the error for the others.
to_string(e) ==
    IF e.error = "CLIJSONDecode" THEN fmt(e.line) ELSE Plain(<<e.error>>)

\* The ResultMessage the task makes of an error.
error_message(prefix, text) ==
    [type |-> "result", subtype |-> "error", is_error |-> TRUE,
     session_id |-> "error", result |-> <<prefix, text>>]

NoMessage == [type |-> "none"]

ClientInit ==
    /\ json_buffer = <<>>
    /\ safety_limits = default
    /\ calls = <<>>
    /\ pc = "connect"
    /\ yielded = <<>>
    /\ channel = [queue |-> <<>>, sent |-> <<>>, delivered |-> <<>>,
                  pending |-> NoMessage, open |-> TRUE, tx |-> TRUE,
                  closed |-> FALSE]
    /\ process = NoProcess

\* transport.connect(): on an error the task goes to send one error message
\* and return.
ClientConnect ==
    /\ pc = "connect"
    /\ \E spawn \in Spawns :
         LET out == connect(process, spawn) IN
         /\ process' = out.process
         /\ calls' = Append(calls, TransportCall("connect", <<spawn>>, out))
         /\ IF out.result = Ok
              THEN /\ pc' = "receive"
                   /\ UNCHANGED channel
            ELSE /\ pc' = "send_connect_error"
                 /\ channel' =
                      [channel EXCEPT
                         !.pending =
                           error_message("Connection error: ",
                                         to_string(out.result))]
    /\ UNCHANGED <<json_buffer, safety_limits, yielded>>

\* transport.receive_messages()
ClientReceiveMessages ==
    /\ pc = "receive"
    /\ LET out == receive_messages(process) IN
       /\ process' = out.process
       /\ calls' = Append(calls, TransportCall("receive_messages", <<>>, out))
       /\ pc' = IF out.stream = "lines" THEN "next" ELSE "disconnect"
    /\ UNCHANGED <<json_buffer, safety_limits, yielded, channel>>

\* message_stream.next() gives Ok(data): the message parse_message makes of
\* it is to be sent, and a record it makes none of is passed over.
ClientRecord ==
    /\ pc = "next"
    /\ Len(yielded) < MaxItems
    /\ \E shape \in RecordShapes :
         LET data == [shape EXCEPT !.payload = Len(yielded) + 1]
             message == parse_message(data)
         IN /\ yielded' = Append(yielded, SomeOk(data))
            /\ IF message = None
                 THEN UNCHANGED <<pc, channel>>
               ELSE /\ pc' = "send"
                    /\ channel' = [channel EXCEPT !.pending = message.data]
    /\ UNCHANGED <<json_buffer, safety_limits, calls, process>>

\* message_stream.next() gives Err(e): the error message is formatted and to
\* be sent; a panic of the formatting unwinds the task, which drops the
\* sender and the transport without a disconnect.
ClientError ==
    /\ pc = "next"
    /\ Len(yielded) < MaxItems
    /\ \E e \in StreamErrors :
         LET text == to_string(e) IN
         /\ yielded' = Append(yielded, e)
         /\ IF text = Panic
              THEN /\ pc' = "panicked"
                   /\ channel' = [channel EXCEPT !.tx = FALSE]
            ELSE /\ pc' = "send_stream_error"
                 /\ channel' =
                      [channel EXCEPT
                         !.pending = error_message("Stream error: ", text)]
    /\ UNCHANGED <<json_buffer, safety_limits, calls, process>>

\* message_stream.next() gives None: the loop is left.
ClientEndOfStream ==
    /\ pc = "next"
    /\ yielded' = Append(yielded, EndOfStream)
    /\ pc' = "disconnect"
    /\ UNCHANGED <<json_buffer, safety_limits, calls, channel, process>>

\* The send the task stands at completes: the loop goes on after a message
\* sent, and is left after a send that failed and after the error message;
\* after the error message of connect the task returns.
ClientSend ==
    /\ pc \in {"send", "send_stream_error", "send_connect_error"}
    /\ LET out == send(channel, channel.pending) IN
       /\ out.done
       /\ channel' =
            [channel EXCEPT
               !.queue = out.queue,
               !.sent = IF out.ok THEN Append(@, channel.pending) ELSE @,
               !.pending = NoMessage,
               !.tx = pc # "send_connect_error"]
       /\ pc' = IF pc = "send_connect_error" THEN "ended"
                ELSE IF pc = "send" /\ out.ok THEN "next"
                ELSE "disconnect"
    /\ UNCHANGED <<json_buffer, safety_limits, calls, yielded, process>>

\* transport.disconnect() and the end of the task, which drops the sender.
ClientDisconnect ==
    /\ pc = "disconnect"
    /\ \E try_wait \in TryWaits, kill \in Completions, wait \in Completions :
         LET out == disconnect(process, try_wait, kill, wait) IN
         /\ process' = out.process
         /\ calls' = Append(calls,
                            TransportCall("disconnect",
                                          <<try_wait, kill, wait>>, out))
    /\ pc' = "ended"
    /\ channel' = [channel EXCEPT !.tx = FALSE]
    /\ UNCHANGED <<json_buffer, safety_limits, yielded>>

\* The consumer takes the next message of its stream.
ClientDeliver ==
    /\ channel.open
    /\ channel.queue # <<>>
    /\ channel' = [channel EXCEPT
                     !.queue = Tail(@),
                     !.delivered = Append(@, Head(channel.queue))]
    /\ UNCHANGED <<json_buffer, safety_limits, calls, pc, yielded, process>>

\* The consumer is given the end of its stream: nothing queued and the
\* sender gone.
ClientClose ==
    /\ channel.open
    /\ ~channel.closed
    /\ channel.queue = <<>>
    /\ ~channel.tx
    /\ channel' = [channel EXCEPT !.closed = TRUE]
    /\ UNCHANGED <<json_buffer, safety_limits, calls, pc, yielded, process>>

\* The consumer drops its stream, and the messages still queued with it.
ClientDrop ==
    /\ channel.open
    /\ ~channel.closed
    /\ channel' = [channel EXCEPT !.queue = <<>>, !.open = FALSE]
    /\ UNCHANGED <<json_buffer, safety_limits, calls, pc, yielded, process>>

\* The steps of the task.
Task ==
    ClientConnect \/ ClientReceiveMessages \/ ClientRecord \/ ClientError
      \/ ClientEndOfStream \/ ClientSend \/ ClientDisconnect

ClientNext == Task \/ ClientDeliver \/ ClientClose \/ ClientDrop

SpecClient == ClientInit /\ [][ClientNext]_vars

\* The task is scheduled as long as it can take a step; the consumer is
\* free to stop.
SpecClientLive == ClientInit /\ [][ClientNext]_vars /\ WF_vars(Task)

\* ------------------------------------------------- vocabulary of the claims
\* The claims speak of single calls and of runs of consecutive calls.  calls
\* only grows, and every call is the latest call of the state it leads to,
\* so what holds of the latest call in every reachable state holds of every
\* call of every behaviour.

Limit == safety_limits.max_line_size

Latest == Len(calls)

\* A line without its leading and trailing spaces.
Stripped(s) ==
    LET inked == {i \in DOMAIN s : s[i] # " "} IN
    IF inked = {} THEN <<>>
    ELSE SubSeq(s, CHOOSE i \in inked : \A j \in inked : i <= j,
                   CHOOSE i \in inked : \A j \in inked : i >= j)

\* A stripped line that begins with "{" or "[".
BeginsJson(s) == s # <<>> /\ s[1] \in {"{", "["}

\* Call c feeds a line that does not begin with "{" or "[" to an empty
\* buffer.
Skipped(c) == c.before = <<>> /\ ~BeginsJson(Stripped(c.line))

\* The buffer process_line hands to the parse attempt for call c.
Accumulated(c) ==
    IF c.before = <<>> THEN Stripped(c.line)
    ELSE c.before \o <<LF>> \o Stripped(c.line)

RECURSIVE SkipBlank(_, _)
\* The least index from i on that holds neither a space nor a line feed,
\* Len(s) + 1 when there is none.
SkipBlank(s, i) ==
    IF i > Len(s) THEN Len(s) + 1
    ELSE IF s[i] = " " \/ s[i] = LF THEN SkipBlank(s, i + 1)
    ELSE i

RECURSIVE value_end(_, _)
\* JSON text (RFC 8259) over the units of the model: the index after the
\* value that starts at i, or 0 when no value starts there.
value_end(s, i) ==
    IF i > Len(s) THEN 0
    ELSE IF s[i] = "{"
      THEN LET j == SkipBlank(s, i + 1) IN
           IF j <= Len(s) /\ s[j] = "}" THEN j + 1
           ELSE IF j <= Len(s) /\ s[j] \in {Member, TextMember}
             THEN LET k == SkipBlank(s, j + 1) IN
                  IF k <= Len(s) /\ s[k] = "}" THEN k + 1 ELSE 0
           ELSE 0
    ELSE IF s[i] = "["
      THEN LET j == SkipBlank(s, i + 1) IN
           IF j <= Len(s) /\ s[j] = "]" THEN j + 1
           ELSE LET e == value_end(s, j) IN
                IF e = 0 THEN 0
                ELSE LET k == SkipBlank(s, e) IN
                     IF k <= Len(s) /\ s[k] = "]" THEN k + 1 ELSE 0
    ELSE 0

\* s is one JSON value, an object or an array, and nothing else.
IsJSONValue(s) ==
    LET e == value_end(s, SkipBlank(s, 1)) IN
    e # 0 /\ SkipBlank(s, e) > Len(s)

\* s is one JSON object and nothing else.
IsJSONObject(s) == IsJSONValue(s) /\ s[SkipBlank(s, 1)] = "{"

\* The record a JSON object denotes.
ObjectOf(s) ==
    IF \E i \in DOMAIN s : s[i] = Member THEN MemberMap
    ELSE IF \E i \in DOMAIN s : s[i] = TextMember THEN TextMap
    ELSE EmptyMap

RECURSIVE JoinLines(_, _)
\* The lines of calls i..j as the subprocess wrote them, line feeds included.
JoinLines(i, j) ==
    IF i = j THEN calls[i].line
    ELSE JoinLines(i, j - 1) \o <<LF>> \o calls[j].line

\* Calls i..j are process_line calls that feed, to an empty buffer, the lines
\* a JSON object occupies: the first holds its "{", the last its "}".
SplitObject(i, j) ==
    /\ i < j
    /\ \A n \in i..j : calls[n].op = "process_line"
    /\ calls[i].before = <<>>
    /\ Stripped(calls[i].line) # <<>>
    /\ Stripped(calls[j].line) # <<>>
    /\ IsJSONObject(JoinLines(i, j))

\* ----------------------------------------------------------------- claims

\* C1: on an empty buffer, a line that after trimming begins with "{", is a
\* valid JSON object and is no longer than max_line_size makes process_line
\* return Some(Ok(record)) with the record the line denotes, and leaves the
\* buffer empty.
C1_SingleLineObject ==
    calls # <<>> =>
      LET c == calls[Latest] IN
      (/\ c.op = "process_line"
       /\ c.before = <<>>
       /\ BeginsJson(Stripped(c.line))
       /\ IsJSONObject(c.line)
       /\ len(c.line) <= Limit)
      => /\ c.result = SomeOk(ObjectOf(c.line))
         /\ c.after = <<>>
         /\ json_buffer = <<>>

\* A one-line object with a member was returned on an empty buffer.
C1_Witness ==
    /\ calls # <<>>
    /\ calls[Latest].op = "process_line"
    /\ calls[Latest].before = <<>>
    /\ calls[Latest].line = <<"{", Member, "}">>
    /\ calls[Latest].result = SomeOk(MemberMap)
    /\ json_buffer = <<>>

\* The results the claim C2 promises for calls i..j.
C2_Results(i, j) ==
    /\ \A n \in i..(j - 1) : calls[n].result = None
    /\ calls[j].result = SomeOk(ObjectOf(JoinLines(i, j)))

\* C2 as stated: every valid JSON object split across n >= 2 lines and fed
\* in order to an empty buffer gives None for the first n-1 lines and
\* Some(Ok(record)) on the n-th, the record of the concatenation.
C2_Original ==
    \A i \in DOMAIN calls : SplitObject(i, Latest) => C2_Results(i, Latest)

\* C2 amended: the same for every such object whose text, line feeds
\* included, is no longer than max_line_size.
C2_SplitObjectWithinLimit ==
    \A i \in DOMAIN calls :
      (SplitObject(i, Latest) /\ len(JoinLines(i, Latest)) <= Limit)
      => C2_Results(i, Latest)

\* An object with a member, split across two lines, was returned on its
\* second line after None on its first.
C2_Witness ==
    /\ Latest >= 2
    /\ SplitObject(Latest - 1, Latest)
    /\ len(JoinLines(Latest - 1, Latest)) <= Limit
    /\ calls[Latest - 1].line = <<"{", Member>>
    /\ calls[Latest - 1].result = None
    /\ calls[Latest].result = SomeOk(MemberMap)

\* Call i feeds a line that begins with "{" or "[", is a JSON value on its
\* own and is within the size limit.
CompleteSingleLine(i) ==
    /\ calls[i].op = "process_line"
    /\ BeginsJson(calls[i].line)
    /\ IsJSONValue(calls[i].line)
    /\ len(calls[i].line) <= Limit

\* The latest two calls feed two complete single-line values to an empty
\* buffer, and the two lines are within the size limit even when taken
\* together.
TwoCompleteLines ==
    /\ Latest >= 2
    /\ calls[Latest - 1].before = <<>>
    /\ CompleteSingleLine(Latest - 1)
    /\ CompleteSingleLine(Latest)
    /\ len(calls[Latest - 1].line) + 1 + len(calls[Latest].line) <= Limit

\* Each of the latest two calls returned the record of its own line.
TwoRecordsInOrder ==
    /\ calls[Latest - 1].result.kind = "Ok"
    /\ calls[Latest].result.kind = "Ok"
    /\ IsJSONObject(calls[Latest - 1].line)
         => calls[Latest - 1].result = SomeOk(ObjectOf(calls[Latest - 1].line))
    /\ IsJSONObject(calls[Latest].line)
         => calls[Latest].result = SomeOk(ObjectOf(calls[Latest].line))

\* C3: two complete single-line JSON values (each beginning with "{" or "[")
\* fed consecutively to an empty buffer are each emitted as a record of
\* their own, in input order.
C3_TwoCompleteLines == TwoCompleteLines => TwoRecordsInOrder

\* What the code does keep of C3: two complete single-line objects are each
\* emitted, in input order.
C3_TwoCompleteObjects ==
    (/\ TwoCompleteLines
     /\ IsJSONObject(calls[Latest - 1].line)
     /\ IsJSONObject(calls[Latest].line))
    => TwoRecordsInOrder

\* C4: after every process_line call that returns Some(...), a record or
\* any fatal error, the buffer is empty.
C4_BufferEmptyAfterSome ==
    (/\ calls # <<>>
     /\ calls[Latest].op = "process_line"
     /\ calls[Latest].result # None)
    => json_buffer = <<>>

\* A line whose accumulation overflows: it is within the limit, it is not
\* skipped, and the buffer with it appended is longer than max_line_size.
BufferOverflows(c) ==
    /\ Stripped(c.line) # <<>>
    /\ len(Stripped(c.line)) <= Limit
    /\ ~Skipped(c)
    /\ len(Accumulated(c)) > Limit

\* C5 as stated: a line whose byte length as received exceeds max_line_size,
\* and an accumulated buffer whose byte length does, gives LineTooLarge with
\* actual the length of that line as received, or of the buffer, and limit
\* max_line_size.
C5_Original ==
    (calls # <<>> /\ calls[Latest].op = "process_line") =>
      LET c == calls[Latest] IN
      /\ len(c.line) > Limit => c.result = LineTooLarge(len(c.line), Limit)
      /\ (len(c.line) <= Limit /\ BufferOverflows(c))
           => c.result = LineTooLarge(len(Accumulated(c)), Limit)

\* C5 amended: a line whose byte length after trimming exceeds
\* max_line_size, and an accumulated buffer whose byte length does, gives
\* LineTooLarge with actual the length of the trimmed line, or of the
\* buffer, and limit max_line_size, valid JSON or not.
C5_TrimmedTooLarge ==
    (calls # <<>> /\ calls[Latest].op = "process_line") =>
      LET c == calls[Latest] IN
      /\ len(Stripped(c.line)) > Limit
           => c.result = LineTooLarge(len(Stripped(c.line)), Limit)
      /\ BufferOverflows(c)
           => c.result = LineTooLarge(len(Accumulated(c)), Limit)

\* A padded line too large after trimming was rejected with its trimmed
\* length, which is not its length as received.
C5_Witness ==
    /\ calls # <<>>
    /\ calls[Latest].op = "process_line"
    /\ len(Stripped(calls[Latest].line)) > Limit
    /\ Stripped(calls[Latest].line) # calls[Latest].line
    /\ calls[Latest].result =
         LineTooLarge(len(Stripped(calls[Latest].line)), Limit)

\* C6 as stated: a line longer than max_line_size is rejected with
\* LineTooLarge whatever its classification, lines of whitespace only
\* included, and is never added to the buffer.
C6_Original ==
    (calls # <<>> /\ calls[Latest].op = "process_line") =>
      LET c == calls[Latest] IN
      len(c.line) > Limit
      => /\ c.result.kind = "Err"
         /\ c.result.error = "LineTooLarge"
         /\ c.after \in {c.before, <<>>}

\* C6 amended: a line longer than max_line_size after trimming is rejected
\* with LineTooLarge whether it would start a buffer, continue one or be
\* skipped as non-JSON, and is never added to the buffer.
C6_TrimmedLineRejected ==
    (calls # <<>> /\ calls[Latest].op = "process_line") =>
      LET c == calls[Latest] IN
      len(Stripped(c.line)) > Limit
      => /\ c.result.kind = "Err"
         /\ c.result.error = "LineTooLarge"
         /\ c.after \in {c.before, <<>>}

\* Oversized lines were rejected both where they would have been skipped
\* as non-JSON and where they would have continued a buffer, which stayed
\* as it was.
C6_Witness ==
    /\ \E i \in DOMAIN calls :
         /\ calls[i].op = "process_line"
         /\ len(Stripped(calls[i].line)) > Limit
         /\ Skipped(calls[i])
         /\ calls[i].result.kind = "Err"
    /\ \E i \in DOMAIN calls :
         /\ calls[i].op = "process_line"
         /\ len(Stripped(calls[i].line)) > Limit
         /\ calls[i].before # <<>>
         /\ calls[i].result.kind = "Err"
         /\ calls[i].after = calls[i].before

\* C7: when the line is within max_line_size but the buffer with a line feed
\* and the line appended is not, process_line clears the buffer and returns
\* LineTooLarge with actual the length of the buffer after the append and
\* limit max_line_size, whether or not that buffer would parse.
C7_AppendOverflow ==
    (calls # <<>> /\ calls[Latest].op = "process_line") =>
      LET c == calls[Latest]
          appended == c.before \o <<LF>> \o Stripped(c.line)
      IN
      (/\ c.before # <<>>
       /\ Stripped(c.line) # <<>>
       /\ len(c.line) <= Limit
       /\ len(appended) > Limit)
      => /\ c.result = LineTooLarge(len(appended), Limit)
         /\ json_buffer = <<>>

\* An append that completed a valid object overflowed the limit and was
\* answered with LineTooLarge and an empty buffer.
C7_Witness ==
    /\ calls # <<>>
    /\ calls[Latest].op = "process_line"
    /\ calls[Latest].before # <<>>
    /\ len(calls[Latest].line) <= Limit
    /\ IsJSONObject(Accumulated(calls[Latest]))
    /\ calls[Latest].result =
         LineTooLarge(len(Accumulated(calls[Latest])), Limit)
    /\ json_buffer = <<>>

\* The latest call feeds a line larger than max_line_size to the buffer "{".
C8_Case ==
    /\ calls # <<>>
    /\ calls[Latest].op = "process_line"
    /\ calls[Latest].before = <<"{">>
    /\ len(Stripped(calls[Latest].line)) > Limit

\* C8 as stated: "{" and then a line larger than max_line_size gives a
\* LineTooLarge whose actual is the accumulated size: "{", the separator
\* and the large line.
C8_Original ==
    C8_Case
    => calls[Latest].result =
         LineTooLarge(len(Accumulated(calls[Latest])), Limit)

\* C8 amended: "{" and then a line larger than max_line_size gives a
\* LineTooLarge whose actual is the size of the large line alone, trimmed,
\* not the accumulated size.
C8_LineSizeAlone ==
    C8_Case
    => calls[Latest].result =
         LineTooLarge(len(Stripped(calls[Latest].line)), Limit)

\* "{" was fed and then a larger line, and LineTooLarge was returned.
C8_Witness ==
    /\ C8_Case
    /\ Latest > 1
    /\ calls[Latest - 1].line = <<"{">>
    /\ calls[Latest].result.kind = "Err"

\* C9: a parse failure of the buffer is never a fatal error: process_line
\* returns None and keeps the buffer, the only error ever returned is
\* LineTooLarge, and try_parse_json_buffer on an unparseable buffer within
\* the size limit returns None.
C9_ParseFailureIsNone ==
    calls # <<>> =>
      LET c == calls[Latest] IN
      /\ c.result.kind = "Err" => c.result.error = "LineTooLarge"
      /\ (/\ c.op = "process_line"
          /\ Stripped(c.line) # <<>>
          /\ len(Stripped(c.line)) <= Limit
          /\ ~Skipped(c)
          /\ len(Accumulated(c)) <= Limit
          /\ ~IsJSONObject(Accumulated(c)))
         => c.result = None /\ json_buffer = Accumulated(c)
      /\ (/\ c.op = "try_parse_json_buffer"
          /\ c.before # <<>>
          /\ len(c.before) <= Limit
          /\ ~IsJSONObject(c.before))
         => c.result = None /\ json_buffer = c.before

\* process_line kept an unparseable buffer and try_parse_json_buffer, called
\* on it, returned None.
C9_Witness ==
    /\ Latest > 1
    /\ calls[Latest].op = "try_parse_json_buffer"
    /\ calls[Latest - 1].op = "process_line"
    /\ calls[Latest - 1].result = None
    /\ calls[Latest - 1].after # <<>>
    /\ ~IsJSONObject(calls[Latest].before)
    /\ calls[Latest].result = None
    /\ json_buffer = calls[Latest - 1].after

RECURSIVE Pending(_)
\* The text of the structured value in progress after n calls, by the
\* stream alone: a value starts with a line that begins with "{" or "[",
\* and ends when its lines form a complete JSON value or when a call returns
\* a record or a fatal error.
Pending(n) ==
    IF n = 0 THEN <<>>
    ELSE LET c == calls[n]
             t == Stripped(c.line)
             p == Pending(n - 1)
         IN
         IF c.result # None THEN <<>>
         ELSE IF c.op # "process_line" \/ t = <<>> THEN p
         ELSE LET q == IF p # <<>> THEN p \o <<LF>> \o t
                       ELSE IF BeginsJson(t) THEN t ELSE <<>>
              IN IF IsJSONValue(q) THEN <<>> ELSE q

\* Call i feeds a non-JSON line, one that does not begin with "{" or "[",
\* before, between or after structured values.
NonJsonOutsideValues(i) ==
    /\ i \in DOMAIN calls
    /\ calls[i].op = "process_line"
    /\ Pending(i - 1) = <<>>
    /\ Stripped(calls[i].line) # <<>>
    /\ ~BeginsJson(Stripped(calls[i].line))
    /\ len(Stripped(calls[i].line)) <= Limit

\* The latest call feeds a valid record, within the size limit, right after
\* call i.
RecordFollows(i) ==
    /\ Latest = i + 1
    /\ calls[Latest].op = "process_line"
    /\ IsJSONObject(calls[Latest].line)
    /\ len(calls[Latest].line) <= Limit

\* C10: a non-JSON line that arrives before, between or after structured
\* values is ignored: it returns None, its text does not enter the buffer,
\* and a valid record that follows it is emitted.
C10_NonJsonIgnored ==
    /\ NonJsonOutsideValues(Latest)
         => calls[Latest].result = None /\ json_buffer = calls[Latest].before
    /\ (NonJsonOutsideValues(Latest - 1) /\ RecordFollows(Latest - 1))
         => calls[Latest].result = SomeOk(ObjectOf(calls[Latest].line))

\* Where C10 fails: a non-JSON line outside structured values meets a
\* buffer that is not empty only when the buffer was started by "[" (C3) or
\* was kept across a LineTooLarge for a single line (C4).
C10_OnlyAfterArrayOrKeptBuffer ==
    (NonJsonOutsideValues(Latest) /\ calls[Latest].before # <<>>)
    => \/ calls[Latest].before[1] = "["
       \/ \E k \in 1..(Latest - 1) :
            /\ calls[k].result.kind = "Err"
            /\ calls[k].after # <<>>

\* What the code does keep of C10: on an empty buffer a non-JSON line is
\* ignored, and a valid record that follows it is emitted.
C10_IgnoredOnEmptyBuffer ==
    /\ (NonJsonOutsideValues(Latest) /\ calls[Latest].before = <<>>)
         => calls[Latest].result = None /\ json_buffer = <<>>
    /\ (/\ NonJsonOutsideValues(Latest - 1)
        /\ calls[Latest - 1].before = <<>>
        /\ RecordFollows(Latest - 1))
         => calls[Latest].result = SomeOk(ObjectOf(calls[Latest].line))

\* The latest call is an Ignore of the classifier: its line is empty after
\* trimming, or does not begin with "{" or "[" while the buffer is empty.
C11_Ignore ==
    /\ calls # <<>>
    /\ calls[Latest].op = "process_line"
    /\ \/ Stripped(calls[Latest].line) = <<>>
       \/ Skipped(calls[Latest])

\* The latest call returned None and left the buffer what it was.
C11_NothingChanged ==
    /\ calls[Latest].result = None
    /\ calls[Latest].after = calls[Latest].before
    /\ json_buffer = calls[Latest].before

\* C11 as stated: for a line that is empty after trimming, in any state of
\* the buffer, or a line not beginning with "{" or "[" while the buffer is
\* empty, process_line returns None and the buffer is what it was.
C11_Original == C11_Ignore => C11_NothingChanged

\* C11 amended: the same, for a line that is empty after trimming or is no
\* longer than max_line_size after trimming.
C11_IgnoreChangesNothing ==
    (C11_Ignore /\ len(Stripped(calls[Latest].line)) <= Limit)
    => C11_NothingChanged

\* A blank line met a buffer in progress and a non-JSON line an empty
\* buffer, and each returned None and left the buffer as it was.
C11_Witness ==
    /\ \E i \in DOMAIN calls :
         /\ calls[i].op = "process_line"
         /\ calls[i].line # <<>>
         /\ Stripped(calls[i].line) = <<>>
         /\ calls[i].before # <<>>
         /\ calls[i].result = None
         /\ calls[i].after = calls[i].before
    /\ \E i \in DOMAIN calls :
         /\ calls[i].op = "process_line"
         /\ Stripped(calls[i].line) # <<>>
         /\ Skipped(calls[i])
         /\ calls[i].result = None
         /\ calls[i].after = <<>>

\* The latest call feeds a non-empty line, within the size limit after
\* trimming, to a buffer that is not empty.
C12_Continue ==
    /\ calls # <<>>
    /\ calls[Latest].op = "process_line"
    /\ calls[Latest].before # <<>>
    /\ Stripped(calls[Latest].line) # <<>>
    /\ len(Stripped(calls[Latest].line)) <= Limit

\* C12: while the buffer is not empty, every non-empty line within the size
\* limit is appended as a line feed and the trimmed line, whatever the line
\* looks like: the buffer that is parsed, and kept when it does not parse,
\* is the old buffer, the line feed and the line; a buffer is started, with
\* the line alone, only when the buffer is empty.
C12_AppendedWhateverTheShape ==
    /\ C12_Continue =>
         LET c == calls[Latest]
             appended == c.before \o <<LF>> \o Stripped(c.line)
         IN
         /\ c.after \in {appended, <<>>}
         /\ c.after = appended <=> c.result = None
         /\ c.result.kind = "Ok" => c.result = SomeOk(ObjectOf(appended))
         /\ c.result.kind = "Err"
              => c.result = LineTooLarge(len(appended), Limit)
    /\ (/\ calls # <<>>
        /\ calls[Latest].op = "process_line"
        /\ calls[Latest].after # <<>>
        /\ calls[Latest].after = Stripped(calls[Latest].line))
       => calls[Latest].before = <<>>

\* A line that is a complete JSON object by itself was appended to the
\* buffer in progress.
C12_Witness ==
    /\ C12_Continue
    /\ BeginsJson(calls[Latest].line)
    /\ IsJSONObject(calls[Latest].line)
    /\ calls[Latest].result = None
    /\ json_buffer = calls[Latest].before \o <<LF>> \o calls[Latest].line

RECURSIVE StartOf(_)
\* The latest call up to n that starts a buffer: a line that begins with "{"
\* or "[" fed to an empty buffer; 0 when there is none.
StartOf(n) ==
    IF n = 0 THEN 0
    ELSE IF /\ calls[n].op = "process_line"
            /\ calls[n].before = <<>>
            /\ BeginsJson(Stripped(calls[n].line))
      THEN n
    ELSE StartOf(n - 1)

RECURSIVE JoinStripped(_, _)
\* The non-empty trimmed lines fed by calls i..j, joined by line feeds.
JoinStripped(i, j) ==
    IF i > j THEN <<>>
    ELSE LET rest == JoinStripped(i, j - 1)
             line == IF calls[j].op = "process_line"
                     THEN Stripped(calls[j].line) ELSE <<>>
         IN
         IF line = <<>> THEN rest
         ELSE IF rest = <<>> THEN line
         ELSE rest \o <<LF>> \o line

\* C17: no partial record is ever delivered: every Ok record returned by
\* process_line or try_parse_json_buffer is the parse of the trimmed Start
\* line and every non-empty trimmed line that followed it, joined by line
\* feeds.
C17_NoPartialRecord ==
    (calls # <<>> /\ calls[Latest].result.kind = "Ok") =>
      /\ StartOf(Latest) > 0
      /\ IsJSONObject(JoinStripped(StartOf(Latest), Latest))
      /\ calls[Latest].result =
           SomeOk(ObjectOf(JoinStripped(StartOf(Latest), Latest)))

\* Where C17 fails: only after a LineTooLarge for a single line that left
\* the buffer in place (C4), so that the lines after it were joined to the
\* lines before it.
C17_OnlyAfterKeptBuffer ==
    ~C17_NoPartialRecord
    => \E k \in 1..(Latest - 1) :
         /\ calls[k].result.kind = "Err"
         /\ calls[k].after # <<>>

\* What the code does keep of C17: every Ok record is the parse of the
\* whole buffer at that moment, and the buffer is empty after it.
C17_RecordOfWholeBuffer ==
    (calls # <<>> /\ calls[Latest].result.kind = "Ok") =>
      LET c == calls[Latest]
          whole == IF c.op = "process_line" THEN Accumulated(c) ELSE c.before
      IN
      /\ IsJSONObject(whole)
      /\ c.result = SomeOk(ObjectOf(whole))
      /\ json_buffer = <<>>

\* C18: after every process_line call, in every reachable state, the byte
\* length of the buffer is at most max_line_size of the limits in force.
C18_BufferWithinLimit == len(json_buffer) <= Limit

\* process_line left a buffer of exactly max_line_size bytes.
C18_Witness ==
    /\ calls # <<>>
    /\ calls[Latest].op = "process_line"
    /\ calls[Latest].before # <<>>
    /\ json_buffer # calls[Latest].before
    /\ len(json_buffer) = Limit

\* The items the output stream was given by call n.
ItemsBy(n) == {i \in DOMAIN yielded : yielded[i].by = n}

\* The line source has signalled its end: the latest call is the handling
\* of end-of-input.
AtStreamEnd == calls # <<>> /\ calls[Latest].op = "end_of_input"

\* C13: when the line source signals end-of-input, receive_messages emits
\* exactly one more item if the buffer is not empty, the outcome of one
\* last parse attempt (the record if it parses, a malformed-JSON error if
\* it does not), and no item if the buffer is empty; then the output
\* sequence closes: nothing is read after it.
C13_OneMoreItemAtStreamEnd ==
    /\ \A k \in 1..(Latest - 1) : calls[k].op # "end_of_input"
    /\ AtStreamEnd =>
         LET before == calls[Latest].before IN
         /\ pc \in {"final", "malformed", "done", "dropped"}
         /\ before = <<>> => ItemsBy(Latest) = {}
         /\ before # <<>> =>
              /\ ItemsBy(Latest) = {Len(yielded)}
              /\ IF IsJSONObject(before)
                 THEN yielded[Len(yielded)].item = SomeOk(ObjectOf(before))
                 ELSE /\ yielded[Len(yielded)].item.kind = "Err"
                      /\ yielded[Len(yielded)].item.error = "CLIJSONDecode"

\* The lines ended on a buffer in progress after an earlier item, one more
\* item was emitted, a malformed-JSON error, and the stream was polled to
\* its end.
C13_Witness ==
    /\ AtStreamEnd
    /\ calls[Latest].before # <<>>
    /\ Len(yielded) = 2
    /\ yielded[2].by = Latest
    /\ yielded[2].item.error = "CLIJSONDecode"
    /\ pc = "done"

\* The lines ended on an empty buffer after an item, and nothing more was
\* emitted.
C13_WitnessEmpty ==
    /\ AtStreamEnd
    /\ calls[Latest].before = <<>>
    /\ Len(yielded) = 1
    /\ pc = "done"

\* C14: the malformed-JSON error emitted at stream end carries a preview of
\* the buffer truncated to max_log_preview_chars: its payload holds no more
\* than max_log_preview_chars characters of the buffer.
C14_PreviewTruncated ==
    \A i \in DOMAIN yielded :
      (yielded[i].item.kind = "Err" /\ yielded[i].item.error = "CLIJSONDecode")
      => len(yielded[i].item.line) <= safety_limits.max_log_preview_chars

\* What the code does instead: the payload is the whole buffer as it stood
\* at the end of the lines.
C14_PayloadIsWholeBuffer ==
    \A i \in DOMAIN yielded :
      (yielded[i].item.kind = "Err" /\ yielded[i].item.error = "CLIJSONDecode")
      => yielded[i].item.line = calls[yielded[i].by].before

\* C15: at stream termination the buffer is cleared after the final parse
\* attempt: once the stream-end item has been delivered the buffer is
\* empty, whether the consumer polls the stream again or drops it.
C15_BufferEmptyAfterStreamEnd ==
    (AtStreamEnd /\ ItemsBy(Latest) # {}) => json_buffer = <<>>

\* What the code does keep of C15: the buffer is empty once the stream has
\* been polled to its end.
C15_EmptyWhenPolledToTheEnd == pc = "done" => json_buffer = <<>>

\* C16: records are emitted in the order in which their closing lines were
\* processed: each item was produced by an earlier input than the item
\* after it, each input produces at most one item, and the item is what
\* the input's processing returned.
C16_EmittedInInputOrder ==
    /\ \A i \in DOMAIN yielded :
         /\ yielded[i].by \in DOMAIN calls
         /\ yielded[i].item = calls[yielded[i].by].result
    /\ \A i \in 1..(Len(yielded) - 1) : yielded[i].by < yielded[i + 1].by
    /\ \A n \in DOMAIN calls :
         calls[n].result # None => ItemsBy(n) # {}

\* Two records were emitted, the first by the first line and the second by
\* the second line.
C16_Witness ==
    /\ Len(yielded) = 2
    /\ yielded[1].item.kind = "Ok"
    /\ yielded[2].item.kind = "Ok"
    /\ yielded[1].by = 1
    /\ yielded[2].by = 2
    /\ calls[1].line = <<"{", "}">>
    /\ calls[2].line = <<"{", "}">>

\* C20: a fatal error does not end the output sequence: after an error
\* item for a line (LineTooLarge) or for a failed read (an IO error)
\* receive_messages keeps reading, until end-of-input.
C20_ErrorDoesNotEndStream ==
    (/\ yielded # <<>>
     /\ yielded[Len(yielded)].item.kind = "Err"
     /\ yielded[Len(yielded)].item.error \in {"LineTooLarge", "Io"}
     /\ ~AtStreamEnd)
    => pc \in {"yielded", "reading", "dropped"}

\* After a LineTooLarge item and after an IO error item the next line was
\* read and produced a record.
C20_Witness ==
    /\ Len(yielded) = 3
    /\ yielded[1].item.kind = "Err"
    /\ yielded[2].item.kind = "Err"
    /\ {yielded[1].item.error, yielded[2].item.error} = {"LineTooLarge", "Io"}
    /\ yielded[3].item.kind = "Ok"
    /\ calls[Latest].op = "process_line"

\* Call c attempts a parse: its line is not empty, is within the size limit
\* and is not skipped.
C19_Attempt(c) ==
    /\ c.op = "process_line"
    /\ Stripped(c.line) # <<>>
    /\ len(Stripped(c.line)) <= Limit
    /\ ~Skipped(c)

\* The parse of call c takes longer than json_parse_timeout_ms.
C19_SlowParse(c) ==
    /\ len(Accumulated(c)) <= Limit
    /\ c.parse_duration > safety_limits.json_parse_timeout_ms

\* The record of call c holds a text longer than max_text_block_size.
C19_LargeText(c) ==
    /\ len(Accumulated(c)) <= Limit
    /\ IsJSONObject(Accumulated(c))
    /\ \E i \in DOMAIN Accumulated(c) : Accumulated(c)[i] = TextMember
    /\ Len(TextMap["message"].content[1].text)
         > safety_limits.max_text_block_size

\* The buffer of call c is larger than half of max_line_size and has not
\* parsed.
C19_LargeUnparsed(c) ==
    /\ len(Accumulated(c)) <= Limit
    /\ ~IsJSONObject(Accumulated(c))
    /\ 2 * len(Accumulated(c)) > Limit

\* C19: advisory conditions never change what is emitted: under a slow
\* parse, a text block over max_text_block_size or a large buffer that has
\* not parsed, process_line returns and keeps what it would without the
\* condition: the record when the buffer parses, None and the buffer when
\* it does not; the conditions are logged, and no error other than
\* LineTooLarge is ever returned.
C19_AdvisoriesChangeNothing ==
    calls # <<>> =>
      LET c == calls[Latest]
          whole == Accumulated(c)
      IN
      /\ c.result.kind = "Err" => c.result.error = "LineTooLarge"
      /\ (/\ C19_Attempt(c)
          /\ C19_SlowParse(c) \/ C19_LargeText(c) \/ C19_LargeUnparsed(c))
         => /\ IF IsJSONObject(whole)
               THEN c.result = SomeOk(ObjectOf(whole)) /\ json_buffer = <<>>
               ELSE c.result = None /\ json_buffer = whole
            /\ C19_SlowParse(c) <=> "slow_parse" \in c.warnings
            /\ C19_LargeText(c) <=> "large_text_block" \in c.warnings
            /\ C19_LargeUnparsed(c) <=> "buffer_growing" \in c.warnings

\* A buffer over half of max_line_size was kept with a warning, and the
\* line after it completed a record with a text block over
\* max_text_block_size, parsed slowly: the record was returned.
C19_Witness ==
    /\ Latest = 2
    /\ calls[1].result = None
    /\ "buffer_growing" \in calls[1].warnings
    /\ C19_LargeUnparsed(calls[1])
    /\ C19_SlowParse(calls[2])
    /\ C19_LargeText(calls[2])
    /\ calls[2].warnings = {"slow_parse", "large_text_block"}
    /\ calls[2].result = SomeOk(TextMap)
    /\ json_buffer = <<>>

\* ---------------------------------------------------------------- C21
\* C21: a failure to read a line is yielded as one Io error item at that
\* position of the output, the read is not repeated (the item is the only
\* one of that step and the generator stands at its yield), and the buffer
\* is what it was before the failure.
C21_ReadErrorIsOneItem ==
    (calls # <<>> /\ calls[Latest].op = "read_error")
        => /\ yielded # <<>>
           /\ ItemsBy(Latest) = {Len(yielded)}
           /\ yielded[Len(yielded)] = [item |-> IoError, by |-> Latest]
           /\ calls[Latest].after = calls[Latest].before
           /\ json_buffer = calls[Latest].before
           /\ pc \in {"yielded", "reading", "dropped"}

\* A read failure while an object is pending, polled past.
C21_Witness ==
    /\ calls # <<>>
    /\ calls[Latest].op = "read_error"
    /\ calls[Latest].before # <<>>
    /\ json_buffer = calls[Latest].before
    /\ pc = "reading"

\* ---------------------------------------------------------------- C30
\* C30: the last parse attempt at the end of the input never yields a
\* record.  A buffer that is not empty when the lines end has already failed
\* a parse within the size limit after the line that put it there, so the
\* item of the end of the input is always the decode error of malformed
\* JSON, never a record and never a LineTooLarge error.
C30_FinalItemIsDecodeError ==
    (AtStreamEnd /\ calls[Latest].before # <<>>)
        => /\ calls[Latest].result = CLIJSONDecode(calls[Latest].before)
           /\ is_line_size_safe(safety_limits, len(calls[Latest].before))
           /\ ~from_str(calls[Latest].before).ok
           /\ pc # "final"

\* The lines end while an object is pending, and the decode error is the
\* last item.
C30_Witness ==
    /\ AtStreamEnd
    /\ calls[Latest].before # <<>>
    /\ yielded # <<>>
    /\ yielded[Len(yielded)].by = Latest
    /\ yielded[Len(yielded)].item.kind = "Err"
    /\ yielded[Len(yielded)].item.error = "CLIJSONDecode"

\* ---------------------------------------------------------------- C24
\* C24: the limits given through with_safety_limits before the first line
\* replace the defaults.  Every size check made afterwards, of the trimmed
\* line and of the accumulated buffer, compares against the max_line_size
\* supplied, also for a size the default would have let through, and every
\* LineTooLarge reports the supplied max_line_size as its limit.
C24_SuppliedLimitsInForce ==
    safety_limits = SafetyLimits(CustomMaxLineSize) =>
      /\ \A i \in DOMAIN calls :
           (calls[i].result.kind = "Err"
              /\ calls[i].result.error = "LineTooLarge")
           => /\ calls[i].result.limit = CustomMaxLineSize
              /\ calls[i].result.actual > CustomMaxLineSize
      /\ (calls # <<>> /\ calls[Latest].op = "process_line") =>
           LET c == calls[Latest]
               size == len(Stripped(c.line))
           IN
           /\ size > CustomMaxLineSize
                => c.result = LineTooLarge(size, CustomMaxLineSize)
           /\ (size > 0 /\ size <= CustomMaxLineSize /\ ~Skipped(c)
                 /\ len(Accumulated(c)) > CustomMaxLineSize)
                => c.result =
                     LineTooLarge(len(Accumulated(c)), CustomMaxLineSize)
           /\ c.result.kind # "Err" => len(c.after) <= CustomMaxLineSize

\* Under the supplied limits a line is rejected that the defaults accept,
\* and the error names the supplied limit.
C24_Witness ==
    /\ safety_limits = SafetyLimits(CustomMaxLineSize)
    /\ calls # <<>>
    /\ calls[Latest].op = "process_line"
    /\ len(Stripped(calls[Latest].line)) > CustomMaxLineSize
    /\ len(Stripped(calls[Latest].line)) <= DefaultMaxLineSize
    /\ calls[Latest].result =
         LineTooLarge(len(Stripped(calls[Latest].line)), CustomMaxLineSize)

\* ---------------------------------------------------------------- C22
\* C22: the output sequence ends exactly when the input ends.  Once the line
\* source has signalled its end, a consumer that keeps polling sees the
\* stream terminate; and the stream is never past its end unless the line
\* source has signalled its end, so it does not terminate while lines
\* remain.
C22_EndsExactlyWhenInputEnds ==
    /\ [](pc = "done" => AtStreamEnd)
    /\ AtStreamEnd ~> (pc = "done")

\* The stream terminated after the end of an input that left an item.
C22_Witness ==
    /\ pc = "done"
    /\ AtStreamEnd
    /\ calls[Latest].before # <<>>
    /\ Len(yielded) >= 2

\* ---------------------------------------------------------------- C25
\* One limits is at most another on every numeric field.
AtMostOnEveryField(a, b) ==
    /\ a.max_line_size <= b.max_line_size
    /\ a.max_text_block_size <= b.max_text_block_size
    /\ a.max_buffer_size <= b.max_buffer_size
    /\ a.max_buffered_messages <= b.max_buffered_messages
    /\ a.json_parse_timeout_ms <= b.json_parse_timeout_ms
    /\ a.max_log_preview_chars <= b.max_log_preview_chars

\* C25: the three presets are ordered on every numeric field: what
\* conservative() returns is at most what default() returns, which is at
\* most what generous() returns, for max_line_size, max_text_block_size,
\* max_buffer_size, max_buffered_messages, json_parse_timeout_ms and
\* max_log_preview_chars.
C25_PresetsOrdered ==
    \A i \in DOMAIN calls :
      calls[i].op = "preset" =>
        LET r == calls[i].result IN
        /\ calls[i].arg = "conservative"
             => AtMostOnEveryField(r, default) /\ AtMostOnEveryField(r, generous)
        /\ calls[i].arg = "default"
             => AtMostOnEveryField(conservative, r)
                  /\ AtMostOnEveryField(r, generous)
        /\ calls[i].arg = "generous"
             => AtMostOnEveryField(conservative, r)
                  /\ AtMostOnEveryField(default, r)

\* conservative() and generous() both called.
C25_Witness ==
    /\ Len(calls) = 2
    /\ calls[1].op = "preset" /\ calls[1].arg = "conservative"
    /\ calls[2].op = "preset" /\ calls[2].arg = "generous"

\* ---------------------------------------------------------------- C26
KiB(n) == n * 1024
MiB(n) == n * 1024 * 1024

\* A limits with the six values in the order of the documentation: line,
\* text block, buffer, messages, timeout, preview.
Documented(line, block, buffer, messages, ms, chars) ==
    [max_line_size |-> line,
     max_text_block_size |-> block,
     max_buffer_size |-> buffer,
     max_buffered_messages |-> messages,
     json_parse_timeout_ms |-> ms,
     max_log_preview_chars |-> chars]

\* C26: the presets have the documented values: default 10 MiB line, 5 MiB
\* text block, 50 MiB buffer, 100 messages, 5000 ms, 200 preview chars;
\* conservative 1 MiB, 512 KiB, 10 MiB, 50, 2000 ms, 100; generous 50 MiB,
\* 25 MiB, 200 MiB, 200, 10000 ms, 500; and new() returns what default()
\* returns.
C26_DocumentedValues ==
    \A i \in DOMAIN calls :
      calls[i].op = "preset" =>
        LET r == calls[i].result IN
        /\ calls[i].arg = "default"
             => r = Documented(MiB(10), MiB(5), MiB(50), 100, 5000, 200)
        /\ calls[i].arg = "conservative"
             => r = Documented(MiB(1), KiB(512), MiB(10), 50, 2000, 100)
        /\ calls[i].arg = "generous"
             => r = Documented(MiB(50), MiB(25), MiB(200), 200, 10000, 500)
        /\ calls[i].arg = "new"
             => r = Documented(MiB(10), MiB(5), MiB(50), 100, 5000, 200)
                  /\ r = preset("default")

\* new() and default() both called, with the same result.
C26_Witness ==
    /\ Len(calls) = 2
    /\ calls[1].op = "preset" /\ calls[1].arg = "new"
    /\ calls[2].op = "preset" /\ calls[2].arg = "default"
    /\ calls[1].result = calls[2].result

\* ---------------------------------------------------------------- C27
\* The two checks of SafetyLimits are inclusive at the limit.
C27_ChecksInclusive ==
    (calls # <<>> /\ calls[Latest].op \in {"is_line_size_safe",
                                            "is_text_block_safe"}) =>
      LET c == calls[Latest] IN
      /\ c.op = "is_line_size_safe"
           => (c.result <=> c.arg \in 0..c.limits.max_line_size)
      /\ c.op = "is_text_block_safe"
           => (c.result <=> c.arg \in 0..c.limits.max_text_block_size)

\* C27 as stated: the size checks are inclusive at the limit, so a line of
\* exactly max_line_size bytes is accepted by process_line, a line of
\* max_line_size + 1 bytes is rejected, and with a limit of 0 every line
\* that is not empty is rejected; the bytes of a line being those of the
\* line as it is given to process_line.
C27_Original ==
    /\ C27_ChecksInclusive
    /\ (calls # <<>> /\ calls[Latest].op = "process_line") =>
         LET c == calls[Latest] IN
         /\ (len(c.line) = Limit /\ c.before = <<>>) => c.result.kind # "Err"
         /\ len(c.line) = Limit + 1
              => c.result = LineTooLarge(Limit + 1, Limit)
         /\ (Limit = 0 /\ c.line # <<>>)
              => c.result = LineTooLarge(len(c.line), 0)

\* C27 amended: is_line_size_safe(n) is true exactly when n <= max_line_size
\* and is_text_block_safe(n) exactly when n <= max_text_block_size;
\* process_line measures the line after trimming: a line of exactly
\* max_line_size bytes after trimming passes the check of the line (and is
\* accepted on an empty buffer), a line of max_line_size + 1 bytes after
\* trimming is rejected with LineTooLarge, and with a limit of 0 every line
\* that is not empty after trimming is rejected, while a line of whitespace
\* only is ignored.
C27_InclusiveAfterTrimming ==
    /\ C27_ChecksInclusive
    /\ (calls # <<>> /\ calls[Latest].op = "process_line") =>
         LET c == calls[Latest]
             size == len(Stripped(c.line))
         IN
         /\ (size = Limit /\ c.before = <<>>) => c.result.kind # "Err"
         /\ (size = Limit /\ c.result.kind = "Err")
              => c.result = LineTooLarge(len(Accumulated(c)), Limit)
                   /\ c.before # <<>>
         /\ size = Limit + 1 => c.result = LineTooLarge(Limit + 1, Limit)
         /\ (Limit = 0 /\ size > 0) => c.result = LineTooLarge(size, 0)
         /\ size = 0 => c.result = None /\ c.after = c.before

\* The checks applied at the limit itself, and a line of exactly
\* max_line_size bytes accepted.
C27_Witness ==
    /\ Len(calls) = 2
    /\ calls[1].op = "is_text_block_safe"
    /\ calls[1].arg = safety_limits.max_text_block_size
    /\ calls[1].result
    /\ calls[2].op = "process_line"
    /\ Limit > 0
    /\ len(Stripped(calls[2].line)) = Limit
    /\ calls[2].result.kind # "Err"

\* Under a limit of 0 a line that is not empty after trimming is rejected.
C27_WitnessZero ==
    /\ calls # <<>>
    /\ calls[Latest].op = "process_line"
    /\ Limit = 0
    /\ calls[Latest].result = LineTooLarge(len(Stripped(calls[Latest].line)), 0)

\* ---------------------------------------------------------------- C28
\* C28: safe_log_preview measures in characters: it returns the text
\* unchanged exactly when the text has at most max_log_preview_chars
\* characters, and otherwise the first max_log_preview_chars characters
\* followed by "... (N total chars)" with N the number of characters of the
\* text, for multi-byte text as for ASCII.
C28_MeasuresCharacters ==
    (calls # <<>> /\ calls[Latest].op = "safe_log_preview") =>
      LET c == calls[Latest]
          characters == Len(c.arg)
          max == c.limits.max_log_preview_chars
      IN
      /\ characters <= max => c.result = Plain(c.arg)
      /\ characters > max
           => c.result = Counted(SubSeq(c.arg, 1, max), characters)

\* What safe_log_preview does: the text is unchanged exactly when it has at
\* most max_log_preview_chars bytes, and N is its number of bytes; on ASCII
\* text the bytes are the characters.
C28_MeasuresBytes ==
    (calls # <<>> /\ calls[Latest].op = "safe_log_preview") =>
      LET c == calls[Latest]
          max == c.limits.max_log_preview_chars
          shown == IF max < Len(c.arg) THEN SubSeq(c.arg, 1, max) ELSE c.arg
      IN
      /\ len(c.arg) <= max => c.result = Plain(c.arg)
      /\ len(c.arg) > max => c.result = Counted(shown, len(c.arg))
      /\ (\A i \in DOMAIN c.arg : c.arg[i] # Wide)
           => len(c.arg) = Len(c.arg)

\* A text of max_log_preview_chars wide characters comes back whole, but
\* followed by the count of its bytes.
C28_Witness ==
    /\ calls # <<>>
    /\ calls[Latest].op = "safe_log_preview"
    /\ calls[Latest].limits.max_log_preview_chars = 2
    /\ calls[Latest].arg = <<Wide, Wide>>
    /\ calls[Latest].result = Counted(<<Wide, Wide>>, 4)

\* ---------------------------------------------------------------- C29
\* C29: displaying a CLIJSONDecodeError succeeds for every stored line:
\* "Failed to decode JSON: " is followed by the whole line when the line is
\* at most 100 bytes, and by its first 100 bytes and "..." when it is
\* longer; formatting never fails, also with multi-byte characters around
\* byte 100.
C29_DisplayNeverFails ==
    (calls # <<>> /\ calls[Latest].op = "fmt") =>
      LET c == calls[Latest] IN
      /\ c.result.kind = "Ok"
      /\ len(c.arg) <= 100 => c.result = Plain(c.arg)
      /\ len(c.arg) > 100
           => /\ c.result.suffix = "ellipsis"
              /\ len(c.result.shown) <= 100
              /\ c.result.shown = SubSeq(c.arg, 1, Len(c.result.shown))

\* What the Display does when it does not panic.
C29_DisplayUnlessSplit ==
    (calls # <<>> /\ calls[Latest].op = "fmt") =>
      LET c == calls[Latest]
          split == \E k \in 1..Len(c.arg) :
                     /\ len(SubSeq(c.arg, 1, k - 1)) < 100
                     /\ len(SubSeq(c.arg, 1, k)) > 100
      IN
      /\ len(c.arg) <= 100 => c.result = Plain(c.arg)
      /\ (len(c.arg) > 100 /\ ~split)
           => /\ c.result.kind = "Ok"
              /\ c.result.suffix = "ellipsis"
              /\ len(c.result.shown) = 100
              /\ c.result.shown = SubSeq(c.arg, 1, Len(c.result.shown))
      /\ (len(c.arg) > 100 /\ split) => c.result = Panic

\* A line whose bytes 100 and 101 are one character: the Display panics.
C29_Witness ==
    /\ calls # <<>>
    /\ calls[Latest].op = "fmt"
    /\ calls[Latest].arg = Ascii(99) \o <<Wide, "a">>
    /\ calls[Latest].result = Panic

\* ---------------------------------------------------------------- C23
\* C23: the messages queued between the reading task and the consumer are
\* never more than max_buffered_messages of the limits in force, 100 by
\* default.  On a full queue the reading task stays suspended at its send:
\* it queues no more, and it drops nothing: the queue is exactly the
\* messages sent and not yet received, in the order they were sent.
C23_QueueWithinMaxBufferedMessages ==
    channel.open =>
      /\ Len(channel.queue) <= safety_limits.max_buffered_messages
      /\ safety_limits.max_buffered_messages = 100
      /\ channel.queue =
           [i \in 1..(channel.sent - channel.received) |->
              channel.received + i]
      /\ (pc \in {"send", "send_last"}
            /\ Len(channel.queue) = safety_limits.max_buffered_messages)
           => ~ENABLED QuerySend

\* The queue full and the task suspended at the send of one more message,
\* some messages received already.
C23_Witness ==
    /\ channel.open
    /\ Len(channel.queue) = 100
    /\ pc = "send"
    /\ channel.received > 0
    /\ ~ENABLED QuerySend

\* ---------------------------------------------------------------- C31
\* The buffer a call found was started by a line that begins with "[".
ArrayPending(c) == c.before # <<>> /\ c.before[1] = "["

TransportCalls(op) == {i \in 1..Len(calls) : calls[i].op = op}

\* C36: connect with a handle held returns Ok, spawns nothing and leaves
\* the handle as it was; a connect whose spawn fails returns CLINotFound
\* or CLIConnection and leaves the transport without a handle; a connect
\* whose spawn succeeds returns Ok and holds the new handle.
C36_ConnectIdempotent ==
    pc = "off" =>
      \A i \in TransportCalls("connect") :
        LET c == calls[i] IN
        /\ c.before.some =>
             /\ c.out.result = Ok
             /\ ~c.out.spawned
             /\ c.out.process = c.before
        /\ ~c.before.some /\ c.input[1] = "spawned" =>
             /\ c.out.result = Ok
             /\ c.out.spawned
             /\ c.out.process.some
        /\ ~c.before.some /\ c.input[1] # "spawned" =>
             /\ c.out.result \in {CLINotFound, CLIConnection}
             /\ c.out.result = CLINotFound <=> c.input[1] = "NotFound"
             /\ ~c.out.spawned
             /\ ~c.out.process.some

\* A connect on a connected transport whose stdout had been taken, and a
\* failed connect, in one history.
C36_Witness ==
    /\ pc = "off"
    /\ \E i, j \in TransportCalls("connect") :
         /\ calls[i].before.some
         /\ ~calls[i].before.stdout
         /\ calls[i].input[1] # "spawned"
         /\ ~calls[j].before.some
         /\ calls[j].out.result = CLIConnection

\* Whether, after the calls h, a connect has succeeded and no disconnect has
\* been called since.
RECURSIVE ConnectedAfter(_)
ConnectedAfter(h) ==
    IF h = <<>> THEN FALSE
    ELSE LET c == h[Len(h)] IN
         IF c.op = "disconnect" THEN FALSE
         ELSE IF c.op = "connect" /\ c.out.result = Ok THEN TRUE
         ELSE ConnectedAfter(SubSeq(h, 1, Len(h) - 1))

LastSpawn(i) ==
    LET S == {j \in 1..(i - 1) : calls[j].op = "connect"
                                  /\ calls[j].out.spawned}
    IN IF S = {} THEN 0 ELSE CHOOSE j \in S : \A k \in S : k <= j

\* Whether the call i is made on a transport that holds a subprocess.
Connected(i) == ConnectedAfter(SubSeq(calls, 1, i - 1))

\* Whether the call i is the first receive_messages since the subprocess
\* it is made on was spawned.
FirstSinceConnect(i) ==
    /\ Connected(i)
    /\ \A j \in TransportCalls("receive_messages") :
         ~(LastSpawn(i) < j /\ j < i)

\* C38: receive_messages gives the lines of stdout exactly when it is the
\* first call since the connect of a subprocess still held, and the empty
\* stream otherwise; it never changes whether a handle is held.
C38_OnlyFirstReceiveReads ==
    pc = "off" =>
      \A i \in TransportCalls("receive_messages") :
        LET c == calls[i] IN
        /\ c.out.stream = (IF FirstSinceConnect(i) THEN "lines" ELSE "empty")
        /\ c.out.process.some <=> c.before.some

\* Two receive_messages on one subprocess, and one with no subprocess.
C38_Witness ==
    /\ pc = "off"
    /\ \E i, j, k \in TransportCalls("receive_messages") :
         /\ i < j
         /\ LastSpawn(i) = LastSpawn(j)
         /\ calls[i].out.stream = "lines"
         /\ Connected(j)
         /\ calls[j].out.stream = "empty"
         /\ ~Connected(k)
         /\ calls[k].out.stream = "empty"


\* ------------------------------------------------------------------- C34
\* The first error among the items the task was given, one past the last
\* item when there is none.
FirstError ==
    LET E == {i \in 1..Len(yielded) : yielded[i].kind = "Err"} IN
    IF E = {} THEN Len(yielded) + 1 ELSE CHOOSE i \in E : \A j \in E : i <= j

\* A content block without a type, or of a known type without a field of
\* that type.
BlockLacksField(b) ==
    \/ b.type = "absent"
    \/ b.type = "text" /\ "text" \notin b.has
    \/ b.type = "tool_use" /\ ~({"id", "name", "input"} \subseteq b.has)
    \/ b.type = "tool_result" /\ "tool_use_id" \notin b.has

\* A record whose type is missing or not recognized, or that lacks a field
\* its type requires.
Unusable(data) ==
    \/ data.type \notin {"user", "assistant", "system", "result"}
    \/ data.type = "user" /\ data.content # "string"
    \/ data.type = "assistant" /\ data.content # "array"
    \/ data.type = "assistant"
         /\ \E k \in 1..Len(data.blocks) : BlockLacksField(data.blocks[k])
    \/ data.type = "system" /\ "subtype" \notin data.has
    \/ data.type = "result"
         /\ \E f \in {"subtype", "duration_ms", "duration_api_ms", "is_error",
                       "num_turns", "session_id"} : f \notin data.has

IsUsableRecord(item) == item.kind = "Ok" /\ ~Unusable(item.data)

\* The usable records the task was given before the first error.
UsableBeforeError ==
    SelectSeq(SubSeq(yielded, 1, FirstError - 1), IsUsableRecord)

\* Whether a message is made of a record, not of an error by the task.
IsOfRecord(message) == "payload" \in DOMAIN message

IsKnownBlock(b) == b.type \in {"text", "tool_use", "tool_result"}

RECURSIVE BlockTypes(_)
BlockTypes(blocks) ==
    IF blocks = <<>> THEN <<>>
    ELSE <<Head(blocks).type>> \o BlockTypes(Tail(blocks))

\* Whether a message is the typed conversion of a record.
ConversionOf(message, data) ==
    /\ message.type = data.type
    /\ message.payload = data.payload
    /\ message.content =
         (IF data.type = "assistant"
            THEN BlockTypes(SelectSeq(data.blocks, IsKnownBlock))
          ELSE <<>>)

\* C34: the messages of records the consumer has received are, in order
\* and one for one, the conversions of the usable records given to the task
\* before the first error, all of them once the consumer has been given the
\* end of its stream; an unusable record leaves the task reading.
C34_DeliveredAreConversions ==
    pc # "off" =>
      LET D == SelectSeq(channel.delivered, IsOfRecord)
          U == UsableBeforeError
      IN /\ Len(D) <= Len(U)
         /\ \A i \in 1..Len(D) : ConversionOf(D[i], U[i].data)
         /\ channel.closed => Len(D) = Len(U)
         /\ yielded # <<>>
              /\ yielded[Len(yielded)].kind = "Ok"
              /\ Unusable(yielded[Len(yielded)].data)
              => pc = "next"

\* Three records of which the second is unusable, the end of the output,
\* and the consumer given the two messages and the end of its stream.
C34_Witness ==
    /\ pc = "ended"
    /\ channel.closed
    /\ Len(yielded) = 4
    /\ yielded[2].kind = "Ok" /\ Unusable(yielded[2].data)
    /\ yielded[3].kind = "Ok" /\ yielded[3].data.type = "assistant"
    /\ Len(channel.delivered) = 2
    /\ channel.delivered[2].payload = 3


\* -------------------------------------------------------- C32, C33, C35
\* The task has left its receive loop, or has never entered it.
LoopLeft == pc \in {"disconnect", "ended", "panicked"}

\* The task is over: it has returned or unwound.
TaskOver == pc \in {"ended", "panicked"}

\* The error message the task makes with the given prefix.
IsErrorMessage(message, prefix) ==
    /\ ~IsOfRecord(message)
    /\ message.type = "result"
    /\ message.subtype = "error"
    /\ message.is_error
    /\ message.result[1] = prefix

\* The messages sent that are error messages of the task.
ErrorsSent ==
    {i \in 1..Len(channel.sent) : ~IsOfRecord(channel.sent[i])}

\* The first error given to the task ends the reading, and one
\* 'Stream error: ' message is sent for it, after every other message,
\* to a consumer that is still there.
ErrorEndsDelivery ==
    LoopLeft /\ FirstError <= Len(yielded) =>
      /\ FirstError = Len(yielded)
      /\ ErrorsSent \subseteq {Len(channel.sent)}
      /\ channel.open =>
           /\ ErrorsSent = {Len(channel.sent)}
           /\ IsErrorMessage(channel.sent[Len(channel.sent)],
                             "Stream error: ")

\* C32: once the task has left its loop after an error of the stream, the
\* error is the last item it took, and its 'Stream error: ' message is the
\* one error message sent and the last message sent.
C32_FirstErrorEndsDelivery == pc # "off" => ErrorEndsDelivery

\* The same of a task that has not unwound.
C32_UnlessDisplayPanics == pc \notin {"off", "panicked"} => ErrorEndsDelivery

\* The calls of disconnect the task has made.
Disconnects == TransportCalls("disconnect")

\* C33: a task that is over after a successful connect has called
\* disconnect once and has dropped its sender, so that the stream of the
\* consumer ends; a task that is over after a failed connect has sent one
\* 'Connection error: ' message and has neither read nor disconnected.
TaskOverAsClaimed ==
    TaskOver =>
      IF calls[1].out.result = Ok
        THEN /\ Cardinality(Disconnects) = 1
             /\ ~process.some
             /\ ~channel.tx
      ELSE /\ Disconnects = {}
           /\ TransportCalls("receive_messages") = {}
           /\ yielded = <<>>
           /\ ~channel.tx
           /\ channel.open =>
                /\ Len(channel.sent) = 1
                /\ IsErrorMessage(channel.sent[1], "Connection error: ")

C33_DisconnectsExactlyOnce == pc # "off" => TaskOverAsClaimed

\* The same of a task that has not unwound.
C33_UnlessDisplayPanics == pc \notin {"off", "panicked"} => TaskOverAsClaimed

\* C35: when the consumer has dropped its stream and the task is in its
\* receive loop, the task comes to call disconnect.
C35_DropLeadsToDisconnect ==
    (~channel.open /\ pc \in {"next", "send"}) ~> (Disconnects # {})

====
